---- MODULE Spec2Model ----
(***************************************************************************)
(* Boolean expression algebra of pysolveengine/satmodel.py and its         *)
(* compilation to conjunctive normal form.                                 *)
(*                                                                         *)
(* An expression object is a record tagged with its class name in field t: *)
(*   Var       [t, id]                                                     *)
(*   NEG       [t, inner]                                                  *)
(*   AND, OR   [t, content]        content is a sequence of expressions    *)
(*   XOR, EQ, NE, IMP  [t, lhs, rhs]                                       *)
(* A raised exception is a record holding only the tag of the exception    *)
(* class; every constructor and method passes on an exception raised while *)
(* its arguments were evaluated.                                           *)
(***************************************************************************)
EXTENDS Integers, Sequences, FiniteSets, TLC

\* Bounds of the model
NVars == 2
MaxNodes == 5
HeapMaxNodes == 4

VarIds == 1..NVars

BinaryClasses == {"XOR", "EQ", "NE", "IMP"}
ListClasses == {"AND", "OR"}

----------------------------------------------------------------------------
\* Exceptions

AssertionError == [t |-> "AssertionError"]
ValueError == [t |-> "ValueError"]

IsError(x) == x.t \in {"AssertionError", "ValueError"}

\* the exception raised first while evaluating the arguments, left to right
RECURSIVE FirstError(_)
FirstError(args) ==
    IF Len(args) = 0 THEN <<>>
    ELSE IF IsError(Head(args)) THEN <<Head(args)>>
    ELSE FirstError(Tail(args))

----------------------------------------------------------------------------
\* Constructors

\* Var.__init__ (the name is a function of the id in this model)
Var(id_) == [t |-> "Var", id |-> id_]

\* NEG.__init__
NEG(inner) ==
    IF IsError(inner) THEN inner
    ELSE IF inner.t = "NEG" THEN AssertionError
    ELSE [t |-> "NEG", inner |-> inner]

\* ListExpr.__add_other without the splice: every operand is nested
RECURSIVE ListExpr_add_other_nesting(_, _, _)
ListExpr_add_other_nesting(cls, _content, content) ==
    IF Len(content) = 0 THEN _content
    ELSE ListExpr_add_other_nesting(cls, Append(_content, Head(content)), Tail(content))

\* ListExpr.__add_other: splice the content of operands of the same class
RECURSIVE ListExpr_add_other(_, _, _)
ListExpr_add_other(cls, _content, content) ==
    IF Len(content) = 0 THEN _content
    ELSE LET expr == Head(content) IN
         ListExpr_add_other(cls,
                            IF expr.t = cls THEN _content \o expr.content
                                            ELSE Append(_content, expr),
                            Tail(content))

\* ListExpr.__init__
ListExpr(cls, content) ==
    IF FirstError(content) # <<>> THEN FirstError(content)[1]
    ELSE [t |-> cls, content |-> ListExpr_add_other(cls, <<>>, content)]

AND(content) == ListExpr("AND", content)
OR(content) == ListExpr("OR", content)

\* BinaryExpr.__init__
BinaryExpr(cls, lhs, rhs) ==
    IF FirstError(<<lhs, rhs>>) # <<>> THEN FirstError(<<lhs, rhs>>)[1]
    ELSE [t |-> cls, lhs |-> lhs, rhs |-> rhs]

XOR(lhs, rhs) == BinaryExpr("XOR", lhs, rhs)
EQ(lhs, rhs) == BinaryExpr("EQ", lhs, rhs)
NE(lhs, rhs) == BinaryExpr("NE", lhs, rhs)
IMP(lhs, rhs) == BinaryExpr("IMP", lhs, rhs)

----------------------------------------------------------------------------
\* Operators of class Expr

Expr_or(self, other) == OR(<<self, other>>)
Expr_and(self, other) == AND(<<self, other>>)
Expr_xor(self, other) == XOR(self, other)
Expr_le(self, other) == IMP(self, other)
Expr_eq(self, other) == EQ(self, other)
Expr_ne(self, other) == NE(self, other)

\* Expr.__neg__
Expr_neg(self) == NEG(self)

\* NEG.__neg__ wrapping once more instead of unwrapping
NEG_neg_wrapping(self) == [t |-> "NEG", inner |-> self]

\* NEG.__neg__
NEG_neg(self) == self.inner

\* unary minus, dispatched on the class of the operand
Neg(self) ==
    IF IsError(self) THEN self
    ELSE IF self.t = "NEG" THEN NEG_neg(self)
    ELSE Expr_neg(self)

----------------------------------------------------------------------------
\* Equivalence rewriter

XOR_get_equivalent_expr(self) ==
    Expr_or(Expr_and(self.lhs, Neg(self.rhs)), Expr_and(Neg(self.lhs), self.rhs))

EQ_get_equivalent_expr(self) ==
    Expr_or(Expr_and(self.lhs, self.rhs), Expr_and(Neg(self.lhs), Neg(self.rhs)))

\* NE rewritten with the negations on the wrong operands
NE_get_equivalent_expr_misplaced(self) ==
    Expr_and(Expr_or(Neg(self.lhs), self.rhs), Expr_or(self.lhs, Neg(self.rhs)))

NE_get_equivalent_expr(self) ==
    Expr_and(Expr_or(Neg(self.lhs), Neg(self.rhs)), Expr_or(self.lhs, self.rhs))

\* IMP rewritten with the negation on the left operand
IMP_get_equivalent_expr_forward(self) ==
    Expr_or(Neg(self.lhs), self.rhs)

\* IMP rewritten with the disjuncts in the other order
IMP_get_equivalent_expr_reordered(self) ==
    Expr_or(self.lhs, Neg(self.rhs))

IMP_get_equivalent_expr(self) ==
    Expr_or(Neg(self.rhs), self.lhs)

\* get_equivalent_expr, dispatched on the class of the node
get_equivalent_expr(self) ==
    CASE self.t = "XOR" -> XOR_get_equivalent_expr(self)
      [] self.t = "EQ" -> EQ_get_equivalent_expr(self)
      [] self.t = "NE" -> NE_get_equivalent_expr(self)
      [] self.t = "IMP" -> IMP_get_equivalent_expr(self)

----------------------------------------------------------------------------
\* CNF compiler

\* concatenation of a sequence of sequences
RECURSIVE Flatten(_)
Flatten(seqs) ==
    IF Len(seqs) = 0 THEN <<>> ELSE Head(seqs) \o Flatten(Tail(seqs))

\* a product enumerated with the first factor varying fastest
RECURSIVE product_first_fastest(_)
product_first_fastest(iterables) ==
    IF Len(iterables) = 0 THEN << <<>> >>
    ELSE LET pools == Head(iterables)
             rest == product_first_fastest(Tail(iterables))
         IN  Flatten([j \in 1..Len(rest) |->
                        [i \in 1..Len(pools) |-> <<pools[i]>> \o rest[j]]])

\* itertools.product: tuples in lexicographic order, the first factor
\* varying slowest; the product of no factor is the one empty tuple
RECURSIVE product(_)
product(iterables) ==
    IF Len(iterables) = 0 THEN << <<>> >>
    ELSE LET pools == Head(iterables)
             rest == product(Tail(iterables))
         IN  Flatten([i \in 1..Len(pools) |->
                        [j \in 1..Len(rest) |-> <<pools[i]>> \o rest[j]]])

\* the children taken over without negating them
NegateAll_forgotten(content) == content

\* [ - x for x in expr.content]
NegateAll(content) == [i \in 1..Len(content) |-> Neg(content[i])]

RECURSIVE convert_to_cnf(_)

\* Var.convert_to_cnf without the clause around the variable
Var_convert_to_cnf_bare(self) == AND(<<self>>)

Var_convert_to_cnf(self) == AND(<<OR(<<self>>)>>)

\* NEG.convert_to_cnf negating the children but keeping the connective
NEG_convert_to_cnf_unflipped(self) ==
    LET inner == self.inner IN
    IF inner.t = "Var" THEN AND(<<OR(<<self>>)>>)
    ELSE LET expr == IF inner.t \in BinaryClasses
                     THEN get_equivalent_expr(inner) ELSE inner
         IN  IF IsError(expr) THEN expr
             ELSE IF expr.t = "AND" THEN convert_to_cnf(AND(NegateAll(expr.content)))
             ELSE IF expr.t = "OR" THEN convert_to_cnf(OR(NegateAll(expr.content)))
             ELSE ValueError

NEG_convert_to_cnf(self) ==
    LET inner == self.inner IN
    IF inner.t = "Var" THEN AND(<<OR(<<self>>)>>)
    ELSE LET expr == IF inner.t \in BinaryClasses
                     THEN get_equivalent_expr(inner) ELSE inner
         IN  IF IsError(expr) THEN expr
             ELSE IF expr.t = "AND" THEN convert_to_cnf(OR(NegateAll(expr.content)))
             ELSE IF expr.t = "OR" THEN convert_to_cnf(AND(NegateAll(expr.content)))
             ELSE ValueError

\* the .content of each compiled child, or the exception it raised
ChildCnfs(content) ==
    LET cnfs == [i \in 1..Len(content) |-> convert_to_cnf(content[i])] IN
    IF FirstError(cnfs) # <<>> THEN FirstError(cnfs)[1]
    ELSE [t |-> "contents", content |-> [i \in 1..Len(cnfs) |-> cnfs[i].content]]

AND_convert_to_cnf(self) ==
    LET cnfs == ChildCnfs(self.content) IN
    IF IsError(cnfs) THEN cnfs
    ELSE AND(Flatten(cnfs.content))

OR_convert_to_cnf(self) ==
    LET cnfs == ChildCnfs(self.content) IN
    IF IsError(cnfs) THEN cnfs
    ELSE LET tuples == product(cnfs.content) IN
         AND([i \in 1..Len(tuples) |-> OR(tuples[i])])

\* a derived operator compiled with its tautological clauses dropped
Binary_convert_to_cnf_minimised(self) ==
    LET cnf == convert_to_cnf(get_equivalent_expr(self))
        Tautology(clause) ==
            \E i, j \in 1..Len(clause.content) :
                clause.content[i] = Neg(clause.content[j])
    IN  IF IsError(cnf) THEN cnf
        ELSE AND(SelectSeq(cnf.content, LAMBDA clause : ~Tautology(clause)))

Binary_convert_to_cnf(self) == convert_to_cnf(get_equivalent_expr(self))

\* convert_to_cnf, dispatched on the class of the node
convert_to_cnf(self) ==
    IF IsError(self) THEN self
    ELSE CASE self.t = "Var" -> Var_convert_to_cnf(self)
           [] self.t = "NEG" -> NEG_convert_to_cnf(self)
           [] self.t = "AND" -> AND_convert_to_cnf(self)
           [] self.t = "OR" -> OR_convert_to_cnf(self)
           [] self.t \in BinaryClasses -> Binary_convert_to_cnf(self)

----------------------------------------------------------------------------
\* CNF compiler of the earlier package, solveengine/satmodel.py: the same
\* but for the negation of the children in NEG.convert_to_cnf

\* [NEG(x) for x in expr.content]
solveengine_NegateAll(content) == [i \in 1..Len(content) |-> NEG(content[i])]

RECURSIVE solveengine_convert_to_cnf(_)

solveengine_NEG_convert_to_cnf(self) ==
    LET inner == self.inner IN
    IF inner.t = "Var" THEN AND(<<OR(<<self>>)>>)
    ELSE LET expr == IF inner.t \in BinaryClasses
                     THEN get_equivalent_expr(inner) ELSE inner
         IN  IF IsError(expr) THEN expr
             ELSE IF expr.t = "AND"
             THEN solveengine_convert_to_cnf(OR(solveengine_NegateAll(expr.content)))
             ELSE IF expr.t = "OR"
             THEN solveengine_convert_to_cnf(AND(solveengine_NegateAll(expr.content)))
             ELSE ValueError

solveengine_ChildCnfs(content) ==
    LET cnfs == [i \in 1..Len(content) |-> solveengine_convert_to_cnf(content[i])] IN
    IF FirstError(cnfs) # <<>> THEN FirstError(cnfs)[1]
    ELSE [t |-> "contents", content |-> [i \in 1..Len(cnfs) |-> cnfs[i].content]]

solveengine_AND_convert_to_cnf(self) ==
    LET cnfs == solveengine_ChildCnfs(self.content) IN
    IF IsError(cnfs) THEN cnfs
    ELSE AND(Flatten(cnfs.content))

solveengine_OR_convert_to_cnf(self) ==
    LET cnfs == solveengine_ChildCnfs(self.content) IN
    IF IsError(cnfs) THEN cnfs
    ELSE LET tuples == product(cnfs.content) IN
         AND([i \in 1..Len(tuples) |-> OR(tuples[i])])

\* convert_to_cnf of the earlier package, dispatched on the class of the node
solveengine_convert_to_cnf(self) ==
    IF IsError(self) THEN self
    ELSE CASE self.t = "Var" -> Var_convert_to_cnf(self)
           [] self.t = "NEG" -> solveengine_NEG_convert_to_cnf(self)
           [] self.t = "AND" -> solveengine_AND_convert_to_cnf(self)
           [] self.t = "OR" -> solveengine_OR_convert_to_cnf(self)
           [] self.t \in BinaryClasses ->
                  solveengine_convert_to_cnf(get_equivalent_expr(self))

----------------------------------------------------------------------------
\* Measures of expression trees

RECURSIVE Nodes(_)
RECURSIVE SumNodes(_)
SumNodes(content) ==
    IF Len(content) = 0 THEN 0 ELSE Nodes(Head(content)) + SumNodes(Tail(content))

\* number of nodes of an expression tree
Nodes(node) ==
    CASE node.t = "Var" -> 1
      [] node.t = "NEG" -> 1 + Nodes(node.inner)
      [] node.t \in ListClasses -> 1 + SumNodes(node.content)
      [] node.t \in BinaryClasses -> 1 + Nodes(node.lhs) + Nodes(node.rhs)
      [] OTHER -> 1

----------------------------------------------------------------------------
\* The caller: one local name e bound to the node returned by its last call.
\* The operands of a call are e, a variable of the model, or a negated
\* variable written inline.

VARIABLES e, last, args

\* The same caller seen on the object heap (second specification, below):
\* heap[r] is the object at address r, ref the address bound to the
\* caller's local name, hlast and hargs the last call and the addresses of
\* its operands.
VARIABLES heap, ref, hlast, hargs

\* The SATModel object and its caller (third specification, below).
\* variables, variables_name, lst_variables and constraints are the four
\* collections of the model; var_value[v] is the solved value of the Var
\* object v; job_id, se_status and solver_status are the job fields of
\* BaseModel; client holds the job id and the three progress flags of the
\* model's client.  On the caller's side, held is the Var object the
\* caller was handed last, call the last call and what it returned or
\* raised, text a text that build_str_model returned and that the caller
\* keeps, and trail the calls made from that build_str_model on.
VARIABLES variables, variables_name, lst_variables, constraints, var_value,
          job_id, se_status, solver_status, client,
          held, call, text, trail

\* A solve seen request by request (fifth specification, below).  pc is the
\* position of the caller: "idle" between two calls, or the statement of
\* BaseModel.solve and BaseClient.manage_solving that runs next;
\* local_se_status and job_result are the locals se_status and result of
\* manage_solving, None while unbound; requests lists the requests sent
\* during the solve, a repeated status request once; job is what the
\* backend keeps of the job it created: the text it was created from and
\* the status it reported last.
VARIABLES pc, local_se_status, job_result, requests, job

vars == <<e, last, args, heap, ref, hlast, hargs,
          variables, variables_name, lst_variables, constraints, var_value,
          job_id, se_status, solver_status, client,
          held, call, text, trail,
          pc, local_se_status, job_result, requests, job>>

hvars == <<heap, ref, hlast, hargs>>

mvars == <<variables, variables_name, lst_variables, constraints, var_value,
           job_id, se_status, solver_status, client,
           held, call, text, trail,
           pc, local_se_status, job_result, requests, job>>

jvars == <<pc, local_se_status, job_result, requests, job>>

\* Python's None, and what a call that returns nothing returns
None == [t |-> "None"]

\* BaseClient.__init__; the attribute _id is first set by _create_job
BaseClient == [_id |-> None, _job_created |-> FALSE, _job_scheduled |-> FALSE, _job_done |-> FALSE]

\* SATModel.__init__, before the caller has made any call
NewModel ==
    /\ variables = <<>>
    /\ variables_name = <<>>
    /\ lst_variables = <<>>
    /\ constraints = <<>>
    /\ var_value = <<>>
    /\ job_id = None
    /\ se_status = "notstarted"
    /\ solver_status = "notstarted"
    /\ client = BaseClient
    /\ held = None
    /\ call = [name |-> "__init__", ret |-> None]
    /\ text = None
    /\ trail = <<>>
    /\ pc = "idle"
    /\ local_se_status = None
    /\ job_result = None
    /\ requests = <<>>
    /\ job = None

Literals == {Var(i) : i \in VarIds} \cup {Neg(Var(i)) : i \in VarIds}

Operands == {e} \cup Literals

Init ==
    /\ e = Var(1)
    /\ last = "Var"
    /\ args = <<>>
    /\ heap = <<>>
    /\ ref = 0
    /\ hlast = "none"
    /\ hargs = <<>>
    /\ NewModel

\* e = <call>(args)
Call(name, a, value) ==
    /\ e' = value
    /\ last' = name
    /\ args' = a
    /\ UNCHANGED hvars
    /\ UNCHANGED mvars

Fits(value) == ~IsError(value) /\ Nodes(value) <= MaxNodes

\* e = x, one of the model's variables
NewVar ==
    \E i \in VarIds : Call("Var", <<>>, Var(i))

\* e = -x
DoNeg ==
    \E x \in Operands :
        /\ Fits(Neg(x))
        /\ Call("neg", <<x>>, Neg(x))

\* e = x & y
DoAnd ==
    \E x \in Operands, y \in Operands :
        /\ Fits(Expr_and(x, y))
        /\ Call("and", <<x, y>>, Expr_and(x, y))

\* e = x | y
DoOr ==
    \E x \in Operands, y \in Operands :
        /\ Fits(Expr_or(x, y))
        /\ Call("or", <<x, y>>, Expr_or(x, y))

\* e = x ^ y
DoXor ==
    \E x \in Operands, y \in Operands :
        /\ Fits(Expr_xor(x, y))
        /\ Call("xor", <<x, y>>, Expr_xor(x, y))

\* e = (x == y)
DoEq ==
    \E x \in Operands, y \in Operands :
        /\ Fits(Expr_eq(x, y))
        /\ Call("eq", <<x, y>>, Expr_eq(x, y))

\* e = (x != y)
DoNe ==
    \E x \in Operands, y \in Operands :
        /\ Fits(Expr_ne(x, y))
        /\ Call("ne", <<x, y>>, Expr_ne(x, y))

\* e = (x <= y)
DoLe ==
    \E x \in Operands, y \in Operands :
        /\ Fits(Expr_le(x, y))
        /\ Call("le", <<x, y>>, Expr_le(x, y))

\* e = e.get_equivalent_expr()
DoGetEquivalentExpr ==
    /\ e.t \in BinaryClasses
    /\ Call("get_equivalent_expr", <<e>>, get_equivalent_expr(e))

\* e = e.convert_to_cnf()
DoConvertToCnf ==
    /\ ~IsError(e)
    /\ Call("convert_to_cnf", <<e>>, convert_to_cnf(e))

Next ==
    \/ NewVar
    \/ DoNeg
    \/ DoAnd
    \/ DoOr
    \/ DoXor
    \/ DoEq
    \/ DoNe
    \/ DoLe
    \/ DoGetEquivalentExpr
    \/ DoConvertToCnf

Spec == Init /\ [][Next]_vars

----------------------------------------------------------------------------
\* The object heap.  An object is a record tagged with its class in t and
\* holding its attributes:
\*   Var       [t, _name, _id]
\*   NEG       [t, _inner]           address of the inner node
\*   AND, OR   [t, _content]         address of a list object
\*   list      [t, items]            sequence of addresses
\*   XOR, EQ, NE, IMP  [t, _lhs, _rhs]
\* A call returns the heap it leaves and the address of its result.

Alloc(H, obj) == [heap |-> Append(H, obj), ref |-> Len(H) + 1]

\* Var.__init__
h_Var(H, id_) == Alloc(H, [t |-> "Var", _name |-> id_, _id |-> id_])

\* NEG.__init__ (its assertion holds on every call: see HeapWellFormed)
h_NEG(H, inner) == Alloc(H, [t |-> "NEG", _inner |-> inner])

\* a ListExpr taking over the list of its first same-class operand instead
\* of extending its own
h_add_one_aliasing(H, self, expr) ==
    LET own == H[self]._content IN
    IF H[expr].t = H[self].t
    THEN IF H[own].items = <<>>
         THEN [H EXCEPT ![self]._content = H[expr]._content]
         ELSE [H EXCEPT ![own].items = @ \o H[H[expr]._content].items]
    ELSE [H EXCEPT ![own].items = Append(@, expr)]

\* one round of the loop of ListExpr.__add_other: self._content is
\* extended in place by the operand's content, or the operand is appended
h_add_one(H, self, expr) ==
    LET own == H[self]._content IN
    IF H[expr].t = H[self].t
    THEN [H EXCEPT ![own].items = @ \o H[H[expr]._content].items]
    ELSE [H EXCEPT ![own].items = Append(@, expr)]

\* ListExpr.__add_other
RECURSIVE h_add_other(_, _, _)
h_add_other(H, self, content) ==
    IF Len(content) = 0 THEN H
    ELSE h_add_other(h_add_one(H, self, Head(content)), self, Tail(content))

\* ListExpr.__init__: the new node gets self._content = [], then __add_other
h_ListExpr(H, cls, content) ==
    LET self == Alloc(H, [t |-> cls, _content |-> 0])
        list == Alloc(self.heap, [t |-> "list", items |-> <<>>])
        H1 == [list.heap EXCEPT ![self.ref]._content = list.ref]
    IN  [heap |-> h_add_other(H1, self.ref, content), ref |-> self.ref]

\* BinaryExpr.__init__
h_BinaryExpr(H, cls, lhs, rhs) == Alloc(H, [t |-> cls, _lhs |-> lhs, _rhs |-> rhs])

\* unary minus: NEG.__neg__ returns the inner node, Expr.__neg__ a new NEG
h_neg(H, self) ==
    IF H[self].t = "NEG" THEN [heap |-> H, ref |-> H[self]._inner]
    ELSE h_NEG(H, self)

h_and(H, self, other) == h_ListExpr(H, "AND", <<self, other>>)
h_or(H, self, other) == h_ListExpr(H, "OR", <<self, other>>)

\* the content property of a ListExpr: the items of its list, as they are
h_content(H, self) == H[H[self]._content].items

\* XOR.get_equivalent_expr
h_XOR_get_equivalent_expr(H, self) ==
    LET n1 == h_neg(H, H[self]._rhs)
        a1 == h_and(n1.heap, n1.heap[self]._lhs, n1.ref)
        n2 == h_neg(a1.heap, a1.heap[self]._lhs)
        a2 == h_and(n2.heap, n2.ref, n2.heap[self]._rhs)
    IN  h_or(a2.heap, a1.ref, a2.ref)

\* EQ.get_equivalent_expr
h_EQ_get_equivalent_expr(H, self) ==
    LET a1 == h_and(H, H[self]._lhs, H[self]._rhs)
        n1 == h_neg(a1.heap, a1.heap[self]._lhs)
        n2 == h_neg(n1.heap, n1.heap[self]._rhs)
        a2 == h_and(n2.heap, n1.ref, n2.ref)
    IN  h_or(a2.heap, a1.ref, a2.ref)

\* NE.get_equivalent_expr
h_NE_get_equivalent_expr(H, self) ==
    LET n1 == h_neg(H, H[self]._lhs)
        n2 == h_neg(n1.heap, n1.heap[self]._rhs)
        o1 == h_or(n2.heap, n1.ref, n2.ref)
        o2 == h_or(o1.heap, o1.heap[self]._lhs, o1.heap[self]._rhs)
    IN  h_and(o2.heap, o1.ref, o2.ref)

\* IMP.get_equivalent_expr
h_IMP_get_equivalent_expr(H, self) ==
    LET n1 == h_neg(H, H[self]._rhs)
    IN  h_or(n1.heap, n1.ref, n1.heap[self]._lhs)

h_get_equivalent_expr(H, self) ==
    CASE H[self].t = "XOR" -> h_XOR_get_equivalent_expr(H, self)
      [] H[self].t = "EQ" -> h_EQ_get_equivalent_expr(H, self)
      [] H[self].t = "NE" -> h_NE_get_equivalent_expr(H, self)
      [] H[self].t = "IMP" -> h_IMP_get_equivalent_expr(H, self)

\* [ - x for x in expr.content], from position i of the live list
RECURSIVE h_negate_all(_, _, _)
h_negate_all(H, expr, i) ==
    IF i > Len(h_content(H, expr)) THEN [heap |-> H, refs |-> <<>>]
    ELSE LET x == h_neg(H, h_content(H, expr)[i])
             rest == h_negate_all(x.heap, expr, i + 1)
         IN  [heap |-> rest.heap, refs |-> <<x.ref>> \o rest.refs]

\* OR(*x) for x in tuples
RECURSIVE h_or_each(_, _)
h_or_each(H, tuples) ==
    IF Len(tuples) = 0 THEN [heap |-> H, refs |-> <<>>]
    ELSE LET clause == h_ListExpr(H, "OR", Head(tuples))
             rest == h_or_each(clause.heap, Tail(tuples))
         IN  [heap |-> rest.heap, refs |-> <<clause.ref>> \o rest.refs]

RECURSIVE h_convert_to_cnf(_, _)

\* x.convert_to_cnf() for x in self.content, from position i of the live
\* list: the addresses of the compiled children
RECURSIVE h_convert_each(_, _, _)
h_convert_each(H, self, i) ==
    IF i > Len(h_content(H, self)) THEN [heap |-> H, refs |-> <<>>]
    ELSE LET cnf == h_convert_to_cnf(H, h_content(H, self)[i])
             rest == h_convert_each(cnf.heap, self, i + 1)
         IN  [heap |-> rest.heap, refs |-> <<cnf.ref>> \o rest.refs]

\* Var.convert_to_cnf and the Var case of NEG.convert_to_cnf: AND(OR(self))
h_literal_convert_to_cnf(H, self) ==
    LET clause == h_ListExpr(H, "OR", <<self>>)
    IN  h_ListExpr(clause.heap, "AND", <<clause.ref>>)

\* NEG.convert_to_cnf (its last line, the ValueError, needs an inner NEG)
h_NEG_convert_to_cnf(H, self) ==
    LET inner == H[self]._inner IN
    IF H[inner].t = "Var" THEN h_literal_convert_to_cnf(H, self)
    ELSE LET expr == IF H[inner].t \in BinaryClasses
                     THEN h_get_equivalent_expr(H, inner)
                     ELSE [heap |-> H, ref |-> inner]
             negated == h_negate_all(expr.heap, expr.ref, 1)
             dual == h_ListExpr(negated.heap,
                                IF expr.heap[expr.ref].t = "AND" THEN "OR" ELSE "AND",
                                negated.refs)
         IN  h_convert_to_cnf(dual.heap, dual.ref)

\* AND.convert_to_cnf
h_AND_convert_to_cnf(H, self) ==
    LET cnfs == h_convert_each(H, self, 1)
        clauses == Flatten([i \in 1..Len(cnfs.refs) |-> h_content(cnfs.heap, cnfs.refs[i])])
    IN  h_ListExpr(cnfs.heap, "AND", clauses)

\* OR.convert_to_cnf
h_OR_convert_to_cnf(H, self) ==
    LET cnfs == h_convert_each(H, self, 1)
        tuples == product([i \in 1..Len(cnfs.refs) |-> h_content(cnfs.heap, cnfs.refs[i])])
        clauses == h_or_each(cnfs.heap, tuples)
    IN  h_ListExpr(clauses.heap, "AND", clauses.refs)

\* XOR, EQ, NE, IMP .convert_to_cnf
h_Binary_convert_to_cnf(H, self) ==
    LET expr == h_get_equivalent_expr(H, self)
    IN  h_convert_to_cnf(expr.heap, expr.ref)

h_convert_to_cnf(H, self) ==
    CASE H[self].t = "Var" -> h_literal_convert_to_cnf(H, self)
      [] H[self].t = "NEG" -> h_NEG_convert_to_cnf(H, self)
      [] H[self].t = "AND" -> h_AND_convert_to_cnf(H, self)
      [] H[self].t = "OR" -> h_OR_convert_to_cnf(H, self)
      [] H[self].t \in BinaryClasses -> h_Binary_convert_to_cnf(H, self)

\* the expression tree an address stands for
RECURSIVE Value(_, _)
Value(H, r) ==
    LET obj == H[r] IN
    CASE obj.t = "Var" -> Var(obj._id)
      [] obj.t = "NEG" -> [t |-> "NEG", inner |-> Value(H, obj._inner)]
      [] obj.t \in ListClasses ->
           [t |-> obj.t, content |->
              [i \in 1..Len(H[obj._content].items) |-> Value(H, H[obj._content].items[i])]]
      [] obj.t \in BinaryClasses ->
           [t |-> obj.t, lhs |-> Value(H, obj._lhs), rhs |-> Value(H, obj._rhs)]

\* Reference counting: the objects no name of the caller leads to are
\* reclaimed.  Copy moves the objects reachable from r to a new heap, in
\* the order they are met; fwd[r] is the new address of r, 0 while unmoved.
RECURSIVE Copy(_, _, _)
RECURSIVE CopyAll(_, _, _)
CopyAll(H, S, refs) ==
    IF Len(refs) = 0 THEN S ELSE CopyAll(H, Copy(H, S, Head(refs)), Tail(refs))

Copy(H, S, r) ==
    IF S.fwd[r] # 0 THEN S
    ELSE LET obj == H[r]
             n == Len(S.heap) + 1
             S1 == [heap |-> Append(S.heap, obj), fwd |-> [S.fwd EXCEPT ![r] = n]]
         IN  CASE obj.t = "Var" -> S1
               [] obj.t = "NEG" ->
                    LET S2 == Copy(H, S1, obj._inner)
                    IN  [S2 EXCEPT !.heap[n]._inner = S2.fwd[obj._inner]]
               [] obj.t \in ListClasses ->
                    LET S2 == Copy(H, S1, obj._content)
                    IN  [S2 EXCEPT !.heap[n]._content = S2.fwd[obj._content]]
               [] obj.t = "list" ->
                    LET S2 == CopyAll(H, S1, obj.items)
                    IN  [S2 EXCEPT !.heap[n].items =
                             [i \in 1..Len(obj.items) |-> S2.fwd[obj.items[i]]]]
               [] obj.t \in BinaryClasses ->
                    LET S2 == CopyAll(H, S1, <<obj._lhs, obj._rhs>>)
                    IN  [S2 EXCEPT !.heap[n]._lhs = S2.fwd[obj._lhs],
                                   !.heap[n]._rhs = S2.fwd[obj._rhs]]

\* the names of the caller: the model's variables, then its local
Roots == [i \in 1..(NVars + 1) |-> IF i <= NVars THEN i ELSE ref]

Collected == CopyAll(heap, [heap |-> <<>>, fwd |-> [r \in 1..Len(heap) |-> 0]], Roots)

Garbage == Collected.heap # heap

\* the heap after model.add_variable for each variable: addresses 1..NVars
RECURSIVE VarHeap(_)
VarHeap(n) == IF n = 0 THEN <<>> ELSE h_Var(VarHeap(n - 1), n).heap

HeapInit ==
    /\ heap = VarHeap(NVars)
    /\ ref = 1
    /\ hlast = "Var"
    /\ hargs = <<>>
    /\ e = Var(1)
    /\ last = "Var"
    /\ args = <<>>
    /\ NewModel

\* ref = <call>(hargs), leaving the heap result.heap
HeapCall(name, a, result) ==
    /\ heap' = result.heap
    /\ ref' = result.ref
    /\ hlast' = name
    /\ hargs' = a
    /\ UNCHANGED <<e, last, args>>
    /\ UNCHANGED mvars

HeapFits(result) == Nodes(Value(result.heap, result.ref)) <= HeapMaxNodes

\* the operands of a call: the local, or a variable of the model; a
\* negated variable is written inline, which allocates its NEG first
HeapOperands == {<<ref, FALSE>>} \cup {<<i, s>> : i \in VarIds, s \in BOOLEAN}

\* the heap and address after evaluating an operand
Operand(H, x) == IF x[2] THEN h_neg(H, x[1]) ELSE [heap |-> H, ref |-> x[1]]

\* the runtime reclaims what the last call left unreachable
HeapReclaim ==
    /\ Garbage
    /\ heap' = Collected.heap
    /\ ref' = Collected.fwd[ref]
    /\ hlast' = "reclaim"
    /\ hargs' = <<>>
    /\ UNCHANGED <<e, last, args>>
    /\ UNCHANGED mvars

\* ref = x, one of the model's variables
HeapNewVar ==
    /\ ~Garbage
    /\ \E i \in VarIds : HeapCall("Var", <<>>, [heap |-> heap, ref |-> i])

\* ref = -x
HeapNeg ==
    /\ ~Garbage
    /\ \E x \in HeapOperands :
          LET a == Operand(heap, x)
              result == h_neg(a.heap, a.ref)
          IN  /\ HeapFits(result)
              /\ HeapCall("neg", <<a.ref>>, result)

\* ref = x & y
HeapAnd ==
    /\ ~Garbage
    /\ \E x \in HeapOperands, y \in HeapOperands :
          LET a == Operand(heap, x)
              b == Operand(a.heap, y)
              result == h_and(b.heap, a.ref, b.ref)
          IN  /\ HeapFits(result)
              /\ HeapCall("and", <<a.ref, b.ref>>, result)

\* ref = x | y
HeapOr ==
    /\ ~Garbage
    /\ \E x \in HeapOperands, y \in HeapOperands :
          LET a == Operand(heap, x)
              b == Operand(a.heap, y)
              result == h_or(b.heap, a.ref, b.ref)
          IN  /\ HeapFits(result)
              /\ HeapCall("or", <<a.ref, b.ref>>, result)

\* ref = x ^ y, x == y, x != y, x <= y
HeapBinary ==
    /\ ~Garbage
    /\ \E cls \in BinaryClasses, x \in HeapOperands, y \in HeapOperands :
          LET a == Operand(heap, x)
              b == Operand(a.heap, y)
              result == h_BinaryExpr(b.heap, cls, a.ref, b.ref)
          IN  /\ HeapFits(result)
              /\ HeapCall(cls, <<a.ref, b.ref>>, result)

\* ref = ref.get_equivalent_expr()
HeapGetEquivalentExpr ==
    /\ ~Garbage
    /\ heap[ref].t \in BinaryClasses
    /\ HeapCall("get_equivalent_expr", <<ref>>, h_get_equivalent_expr(heap, ref))

\* ref = ref.convert_to_cnf()
HeapConvertToCnf ==
    /\ ~Garbage
    /\ HeapCall("convert_to_cnf", <<ref>>, h_convert_to_cnf(heap, ref))

HeapNext ==
    \/ HeapReclaim
    \/ HeapNewVar
    \/ HeapNeg
    \/ HeapAnd
    \/ HeapOr
    \/ HeapBinary
    \/ HeapGetEquivalentExpr
    \/ HeapConvertToCnf

HeapSpec == HeapInit /\ [][HeapNext]_vars

\* every address stored in an object is an address of the heap, no NEG has
\* a NEG inner (the assertion of NEG.__init__), and no list is the content
\* of two nodes
HeapWellFormed ==
    /\ ref \in 1..Len(heap)
    /\ \A r \in 1..Len(heap) :
          /\ heap[r].t = "NEG" => heap[heap[r]._inner].t \notin {"NEG", "list"}
          /\ heap[r].t \in ListClasses => heap[heap[r]._content].t = "list"
          /\ heap[r].t = "list" =>
                \A i \in 1..Len(heap[r].items) : heap[heap[r].items[i]].t # "list"
    /\ \A r1, r2 \in 1..Len(heap) :
          (heap[r1].t \in ListClasses /\ heap[r2].t \in ListClasses /\ r1 # r2)
              => heap[r1]._content # heap[r2]._content

\* the heap computes what the algebra on trees computes
HeapRefinesTrees ==
    /\ hlast = "neg" => Value(heap, ref) = Neg(Value(heap, hargs[1]))
    /\ hlast = "and" => Value(heap, ref) = Expr_and(Value(heap, hargs[1]), Value(heap, hargs[2]))
    /\ hlast = "or" => Value(heap, ref) = Expr_or(Value(heap, hargs[1]), Value(heap, hargs[2]))
    /\ hlast \in BinaryClasses =>
          Value(heap, ref) = BinaryExpr(hlast, Value(heap, hargs[1]), Value(heap, hargs[2]))
    /\ hlast = "get_equivalent_expr" =>
          Value(heap, ref) = get_equivalent_expr(Value(heap, hargs[1]))
    /\ hlast = "convert_to_cnf" =>
          Value(heap, ref) = convert_to_cnf(Value(heap, hargs[1]))

----------------------------------------------------------------------------
\* SATModel: the variable registry and the constraint list

\* Bounds of the model: ids named by the caller, the constraint vectors and
\* the backend are 1..MaxId; registered variables; stored constraints
MaxId == 2
MaxVariables == 2
MaxConstraints == 2

KeyError == [t |-> "KeyError"]
TypeError == [t |-> "TypeError"]
UnboundLocalError == [t |-> "UnboundLocalError"]

\* the outcome of a call is an exception
Raised(r) ==
    r.t \in {"AssertionError", "ValueError", "KeyError", "TypeError", "UnboundLocalError"}

\* Python values whose type the model tests: an integer, a string that is
\* not a number, a list and an expression
PyInt(k) == [type |-> "int", val |-> k]
PyStr == [type |-> "str", val |-> 0]
PyList(lst) == [type |-> "list", val |-> lst]
PyExpr(x) == [type |-> "Expr", val |-> x]

Abs(k) == IF k < 0 THEN -k ELSE k

\* Var.__init__ with its name
VarObject(name, id_) == [t |-> "Var", id |-> id_, name |-> name]

\* the fields of the model that the registry and constraint methods use
Self ==
    [variables |-> variables, variables_name |-> variables_name,
     lst_variables |-> lst_variables, constraints |-> constraints,
     var_value |-> var_value]

\* the same fields as SATModel.__init__ leaves them
SATModel_init ==
    [variables |-> <<>>, variables_name |-> <<>>, lst_variables |-> <<>>,
     constraints |-> <<>>, var_value |-> <<>>]

\* a method leaves the model as self and returns or raises ret
Outcome(self, ret) == [self |-> self, ret |-> ret]

\* the loop of SATModel.__get_new_id
RECURSIVE SATModel_get_new_id_loop(_, _)
SATModel_get_new_id_loop(self, new_id) ==
    IF new_id \in DOMAIN self.variables
    THEN SATModel_get_new_id_loop(self, new_id + 1)
    ELSE new_id

\* SATModel.__get_new_id taking one more than the number of variables
SATModel_get_new_id_counting(self, id_) ==
    IF id_ = 0 THEN Cardinality(DOMAIN self.variables) + 1 ELSE Abs(id_)

\* SATModel.__get_new_id taking a requested id with its sign
SATModel_get_new_id_signed(self, id_) ==
    IF id_ = 0 THEN SATModel_get_new_id_loop(self, 1) ELSE id_

\* SATModel.__get_new_id
SATModel_get_new_id(self, id_) ==
    IF id_ = 0 THEN SATModel_get_new_id_loop(self, 1) ELSE Abs(id_)

\* SATModel.add_variable storing the name before it checks it
add_variable_unchecked_name(self, name, id_) ==
    LET new_id == SATModel_get_new_id(self, id_)
        new_var == VarObject(name, new_id)
    IN  IF new_id \in DOMAIN self.variables THEN Outcome(self, ValueError)
        ELSE IF name \in DOMAIN self.variables_name
        THEN Outcome([self EXCEPT !.variables = (new_id :> new_var) @@ @], ValueError)
        ELSE Outcome([self EXCEPT !.variables_name = (name :> new_var) @@ @,
                                  !.variables = (new_id :> new_var) @@ @,
                                  !.lst_variables = Append(@, new_var),
                                  !.var_value = (new_var :> None) @@ @],
                     new_var)

\* SATModel.add_variable
add_variable(self, name, id_) ==
    LET new_id == SATModel_get_new_id(self, id_)
        new_var == VarObject(name, new_id)
    IN  IF new_id \in DOMAIN self.variables THEN Outcome(self, ValueError)
        ELSE IF name \in DOMAIN self.variables_name THEN Outcome(self, ValueError)
        ELSE Outcome([self EXCEPT !.variables_name = (name :> new_var) @@ @,
                                  !.variables = (new_id :> new_var) @@ @,
                                  !.lst_variables = Append(@, new_var),
                                  !.var_value = (new_var :> None) @@ @],
                     new_var)

\* SATModel.add_constraint_expr
add_constraint_expr(self, expr) ==
    IF expr.type # "Expr" THEN Outcome(self, ValueError)
    ELSE Outcome([self EXCEPT !.constraints = Append(@, expr.val)], None)

\* "x" + str(a_id)
GeneratedName(a_id) == "x" \o ToString(a_id)

\* SATModel.__add_id
SATModel_add_id(self, id_) ==
    IF id_.type # "int" THEN Outcome(self, TypeError)
    ELSE LET a_id == Abs(id_.val)
         IN  IF a_id \notin DOMAIN self.variables
             THEN add_variable(self, GeneratedName(a_id), a_id)
             ELSE Outcome(self, None)

\* for id_ in lst: self.__add_id(id_)
RECURSIVE SATModel_add_ids(_, _)
SATModel_add_ids(self, lst) ==
    IF Len(lst) = 0 THEN Outcome(self, None)
    ELSE LET first == SATModel_add_id(self, Head(lst))
         IN  IF Raised(first.ret) THEN first
             ELSE SATModel_add_ids(first.self, Tail(lst))

\* SATModel.__get_var
SATModel_get_var(self, id_) ==
    IF id_.type # "int" THEN TypeError
    ELSE IF id_.val < 0
    THEN IF Abs(id_.val) \in DOMAIN self.variables
         THEN Neg(self.variables[Abs(id_.val)]) ELSE KeyError
    ELSE IF id_.val \in DOMAIN self.variables
         THEN self.variables[id_.val] ELSE KeyError

\* reduce(OR, map(self.__get_var, lst)) from the accumulated value acc on
RECURSIVE reduce_OR(_, _, _)
reduce_OR(self, acc, lst) ==
    IF Len(lst) = 0 THEN acc
    ELSE LET x == SATModel_get_var(self, Head(lst))
         IN  IF Raised(x) THEN x
             ELSE reduce_OR(self, OR(<<acc, x>>), Tail(lst))

\* the type test of add_constraint_vector
\* set(map(type, lst)) != {int} and 0 not in lst
VectorRejected(lst) ==
    /\ {lst[i].type : i \in 1..Len(lst)} # {"int"}
    /\ ~\E i \in 1..Len(lst) : lst[i].type = "int" /\ lst[i].val = 0

\* SATModel.add_constraint_vector
add_constraint_vector(self, lst) ==
    IF Len(lst) = 0 THEN Outcome(self, None)
    ELSE IF VectorRejected(lst) THEN Outcome(self, ValueError)
    ELSE LET added == SATModel_add_ids(self, lst)
             first == SATModel_get_var(added.self, Head(lst))
             expr == IF Raised(first) THEN first
                     ELSE reduce_OR(added.self, first, Tail(lst))
         IN  IF Raised(added.ret) THEN added
             ELSE IF Raised(expr) THEN Outcome(added.self, expr)
             ELSE add_constraint_expr(added.self, PyExpr(expr))

\* SATModel.add_list_constraints
RECURSIVE add_list_constraints(_, _)
add_list_constraints(self, lst_constraints) ==
    IF Len(lst_constraints) = 0 THEN Outcome(self, None)
    ELSE LET constraint == Head(lst_constraints)
             first == CASE constraint.type = "list" -> add_constraint_vector(self, constraint.val)
                        [] constraint.type = "Expr" -> add_constraint_expr(self, constraint)
                        [] OTHER -> Outcome(self, ValueError)
         IN  IF Raised(first.ret) THEN first
             ELSE add_list_constraints(first.self, Tail(lst_constraints))

\* list.pop(index) taking a non-negative index as counted from 1
PopPosition_from_one(lst, index) == IF index < 0 THEN Len(lst) + index + 1 ELSE index

\* the position, counted from 1, of the element that list.pop(index)
\* removes, negative indices counting from the end
PopPosition(lst, index) == IF index < 0 THEN Len(lst) + index + 1 ELSE index + 1

\* SATModel.remove_constraint_with_index
remove_constraint_with_index(self, index) ==
    LET i == PopPosition(self.constraints, index)
    IN  IF i \notin 1..Len(self.constraints) THEN Outcome(self, ValueError)
        ELSE Outcome([self EXCEPT !.constraints =
                          SubSeq(@, 1, i - 1) \o SubSeq(@, i + 1, Len(@))], None)

\* SATModel.get_variable_with_id looking up id_ as it is given
get_variable_with_id_signed(self, id_) ==
    IF id_ \in DOMAIN self.variables
    THEN Outcome(self, self.variables[id_]) ELSE Outcome(self, KeyError)

\* SATModel.get_variable_with_id
get_variable_with_id(self, id_) ==
    IF Abs(id_) \in DOMAIN self.variables
    THEN Outcome(self, self.variables[Abs(id_)]) ELSE Outcome(self, KeyError)

\* SATModel.get_variable_with_name
get_variable_with_name(self, name) ==
    IF name \in DOMAIN self.variables_name
    THEN Outcome(self, self.variables_name[name]) ELSE Outcome(self, KeyError)

\* SATModel.reinit keeping the names of the variables
SATModel_reinit_keeping_names(self) ==
    [self EXCEPT !.variables = <<>>, !.lst_variables = <<>>,
                 !.constraints = <<>>, !.var_value = <<>>]

\* SATModel.reinit, the collections
SATModel_reinit(self) ==
    [self EXCEPT !.variables = <<>>, !.variables_name = <<>>, !.lst_variables = <<>>,
                 !.constraints = <<>>, !.var_value = <<>>]

\* sep.join(strs)
RECURSIVE join(_, _)
join(sep, strs) ==
    IF Len(strs) = 0 THEN ""
    ELSE IF Len(strs) = 1 THEN Head(strs)
    ELSE Head(strs) \o sep \o join(sep, Tail(strs))

\* Var.get_cnf_str and NEG.get_cnf_str
Literal_get_cnf_str(lit) ==
    IF lit.t = "NEG" THEN "-" \o ToString(lit.inner.id) ELSE ToString(lit.id)

\* OR.get_cnf_str
OR_get_cnf_str(self) ==
    join(" ", [i \in 1..Len(self.content) |-> Literal_get_cnf_str(self.content[i])]) \o " 0"

\* [clause for x in clauses for clause in x]
RECURSIVE Clauses(_)
Clauses(constrs) ==
    IF Len(constrs) = 0 THEN <<>>
    ELSE convert_to_cnf(Head(constrs)).content \o Clauses(Tail(constrs))

\* the first occurrences of the elements of a list
RECURSIVE Distinct(_)
Distinct(lst) ==
    IF Len(lst) = 0 THEN <<>>
    ELSE LET front == Distinct(SubSeq(lst, 1, Len(lst) - 1))
         IN  IF \E i \in 1..Len(front) : front[i] = lst[Len(lst)]
             THEN front ELSE Append(front, lst[Len(lst)])

\* SATModel.build_str_model handing out the text it built last, if any
build_str_model_cached(self) ==
    IF text # None THEN text.s
    ELSE LET clauses == Clauses(self.constraints)
         IN  "p cnf " \o ToString(Cardinality(DOMAIN self.variables)) \o " "
                 \o ToString(Len(clauses)) \o "\n"
                 \o join("\n", [i \in 1..Len(clauses) |-> OR_get_cnf_str(clauses[i])])

\* SATModel.build_str_model writing each distinct clause once
build_str_model_distinct(self) ==
    LET clauses == Distinct(Clauses(self.constraints))
    IN  "p cnf " \o ToString(Cardinality(DOMAIN self.variables)) \o " "
            \o ToString(Len(clauses)) \o "\n"
            \o join("\n", [i \in 1..Len(clauses) |-> OR_get_cnf_str(clauses[i])])

\* SATModel.build_str_model
build_str_model(self) ==
    LET clauses == Clauses(self.constraints)
    IN  "p cnf " \o ToString(Cardinality(DOMAIN self.variables)) \o " "
            \o ToString(Len(clauses)) \o "\n"
            \o join("\n", [i \in 1..Len(clauses) |-> OR_get_cnf_str(clauses[i])])

----------------------------------------------------------------------------
\* Solving: BaseModel.solve, the client's manage_solving and
\* SATModel._process_solution

\* a Python string and a Python boolean held where None can be held too
Str(s) == [t |-> "str", s |-> s]
PyBool(b) == [t |-> "bool", b |-> b]

\* isinstance(value, bool): a Python integer is no bool
isinstance_bool(value) == "t" \in DOMAIN value /\ value.t = "bool"

\* Var.set_value taking the integers 0 and 1 for booleans as well
Var_set_value_of_int(self, var, value) ==
    IF isinstance_bool(value)
    THEN Outcome([self EXCEPT !.var_value = (var :> value) @@ @], None)
    ELSE IF "type" \in DOMAIN value /\ value.type = "int" /\ value.val \in {0, 1}
    THEN Outcome([self EXCEPT !.var_value = (var :> PyBool(value.val = 1)) @@ @],
                 None)
    ELSE Outcome(self, ValueError)

\* Var.set_value on the Var object var of the model
Var_set_value(self, var, value) ==
    IF ~isinstance_bool(value) THEN Outcome(self, ValueError)
    ELSE Outcome([self EXCEPT !.var_value = (var :> value) @@ @], None)

\* config.SolverStatusCode.get_values()
SolverStatusCodes ==
    {"interrupted", "notstarted", "optimal", "infeasible", "unbounded",
     "satisfiable", "unsatisfiable"}

\* the final statuses of config.SEStatusCode on which _wait_results returns
\* or raises
FinalStatuses == {"completed", "failed", "timeout", "stopped"}

\* int(s) of a string, for the numerals the backend can name
Numerals == 0..(MaxId + 1)
IsNumeral(s) == \E k \in Numerals : ToString(k) = s
int(s) == CHOOSE k \in Numerals : ToString(k) = s

\* helper.Variable of a result
Variable(name, val) == [name |-> name, value |-> val]

\* the loop of SATModel._process_solution
RECURSIVE SATModel_process_variables(_, _)
SATModel_process_variables(self, vs) ==
    IF Len(vs) = 0 THEN Outcome(self, None)
    ELSE IF ~IsNumeral(Head(vs).name) THEN Outcome(self, ValueError)
    ELSE LET var_id == int(Head(vs).name)
             var == self.variables[var_id]
             set == PyBool(Head(vs).value = 1)
         IN  IF var_id \in DOMAIN self.variables
             THEN SATModel_process_variables(
                      [self EXCEPT !.var_value = (var :> set) @@ @], Tail(vs))
             ELSE SATModel_process_variables(self, Tail(vs))

\* SATModel._process_solution testing the status after it has set the values
SATModel_process_solution_status_last(self, result_obj) ==
    LET done == SATModel_process_variables(self, result_obj.variables)
    IN  IF Raised(done.ret) THEN done
        ELSE IF result_obj.status \notin SolverStatusCodes
        THEN Outcome(done.self, ValueError)
        ELSE Outcome(done.self, Str(result_obj.status))

\* SATModel._process_solution
SATModel_process_solution(self, result_obj) ==
    IF result_obj.status \notin SolverStatusCodes THEN Outcome(self, ValueError)
    ELSE LET done == SATModel_process_variables(self, result_obj.variables)
         IN  IF Raised(done.ret) THEN done
             ELSE Outcome(done.self, Str(result_obj.status))

\* BaseClient.manage_solving against a backend that answers the creation
\* with the id backend.create (or "error"), the scheduling with
\* backend.schedule, the status polls in the end with backend.status and
\* the request for the results with backend.result (or "error" in
\* backend.solution)
manage_solving(cl, backend) ==
    LET created == IF cl._job_created THEN cl
                   ELSE [cl EXCEPT !._id = Str(backend.create), !._job_created = TRUE]
        scheduled == IF created._job_scheduled THEN created
                     ELSE [created EXCEPT !._job_scheduled = TRUE]
        done == IF scheduled._job_done THEN scheduled
                ELSE [scheduled EXCEPT !._job_done = TRUE]
    IN  IF ~cl._job_created /\ backend.create = "error"
            THEN [client |-> cl, ret |-> ValueError]
        ELSE IF ~created._job_scheduled /\ backend.schedule = "error"
            THEN [client |-> created, ret |-> ValueError]
        ELSE IF ~scheduled._job_done /\ backend.status # "completed"
            THEN [client |-> scheduled, ret |-> ValueError]
        ELSE IF backend.solution = "error"
            THEN [client |-> done, ret |-> ValueError]
        ELSE IF scheduled._job_done
            THEN [client |-> done, ret |-> UnboundLocalError]
        ELSE [client |-> done,
              ret |-> [t |-> "tuple", id |-> done._id, se_status |-> backend.status,
                       result |-> backend.result]]

----------------------------------------------------------------------------
\* The caller of a SATModel.  It keeps the variable it was handed last in
\* held and builds the expressions it adds from it; it keeps the text of a
\* build_str_model in text to compare it with the text of the next one, as
\* long as the calls in between are the ones of Compared, listed in trail.

\* the arguments the caller passes
Names == {"a", "x2"}
IdArgs == (-MaxId)..MaxId
ExprArgs ==
    {PyStr} \cup
    (IF held = None THEN {}
     ELSE {PyExpr(Var(held.id)), PyExpr(Expr_and(Var(held.id), Neg(Var(held.id))))})
VectorArgs ==
    {<<>>, <<PyInt(1)>>, <<PyInt(1), PyInt(-MaxId)>>, <<PyInt(0)>>,
     <<PyInt(1), PyInt(0)>>, <<PyStr>>, <<PyInt(1), PyStr>>, <<PyInt(0), PyStr>>}
ListArgs ==
    {<<>>, <<PyList(<<PyInt(-MaxId)>>), PyStr>>,
     <<PyList(<<PyInt(1)>>), PyList(<<PyInt(0)>>)>>}
    \cup (IF held = None THEN {}
          ELSE {<<PyExpr(Neg(Var(held.id))), PyList(<<PyInt(1)>>)>>})
ValueArgs ==
    {PyBool(TRUE), PyBool(FALSE), PyInt(0), PyInt(1), PyStr, None}
IndexArgs == (-MaxConstraints - 1)..MaxConstraints
LookupNames == Names \cup {GeneratedName(1)}

\* the answers of the backend to one solve
JobIds == {"job1"}
ResultVariables ==
    {<<>>, <<Variable("1", 1)>>, <<Variable("1", 0), Variable(ToString(MaxId), 1)>>}
Results ==
    {[status |-> s, variables |-> vs] : s \in {"satisfiable", "unknown"}, vs \in ResultVariables}
NoResult == [status |-> "notstarted", variables |-> <<>>]
Backends ==
    {[create |-> "error", schedule |-> "error", status |-> "failed",
      solution |-> "error", result |-> NoResult]}
    \cup {[create |-> j, schedule |-> "error", status |-> "failed",
           solution |-> "error", result |-> NoResult] : j \in JobIds}
    \cup {[create |-> j, schedule |-> "ok", status |-> s,
           solution |-> "error", result |-> NoResult] :
              j \in JobIds, s \in FinalStatuses}
    \cup {[create |-> j, schedule |-> "ok", status |-> "completed",
           solution |-> "ok", result |-> r] : j \in JobIds, r \in Results}

\* the model stays within the bounds
ModelFits(self) ==
    /\ Len(self.lst_variables) <= MaxVariables
    /\ Cardinality(DOMAIN self.variables) <= MaxVariables
    /\ Len(self.constraints) <= MaxConstraints

\* the call name(...) left the model as out.self and returned or raised
\* out.ret
ModelCall(name, out) ==
    /\ ModelFits(out.self)
    /\ variables' = out.self.variables
    /\ variables_name' = out.self.variables_name
    /\ lst_variables' = out.self.lst_variables
    /\ constraints' = out.self.constraints
    /\ var_value' = out.self.var_value
    /\ call' = [name |-> name, ret |-> out.ret]
    /\ UNCHANGED <<e, last, args>>
    /\ UNCHANGED hvars
    /\ UNCHANGED jvars

JobUnchanged == UNCHANGED <<job_id, se_status, solver_status, client>>

\* the caller no longer compares with the text it got
Forget == text' = None /\ trail' = <<>>

\* the calls after which the caller compares the text of the next
\* build_str_model with the text it got: none but the build_str_model that
\* gave the text, an add_constraint_expr, and an add_constraint_expr undone
\* by remove_constraint_with_index(-1)
Compared ==
    {<<"build_str_model">>,
     <<"build_str_model", "add_constraint_expr">>,
     <<"build_str_model", "add_constraint_expr", "remove_constraint_with_index">>}

\* held = model.add_variable(name, id_)
AddVariable(name, id_) ==
    LET out == add_variable(Self, name, id_)
    IN  /\ ModelCall("add_variable", out)
        /\ held' = IF Raised(out.ret) THEN held ELSE out.ret
        /\ JobUnchanged
        /\ Forget

ModelAddVariable == \E name \in Names, id_ \in IdArgs : AddVariable(name, id_)

\* model.add_constraint_expr(expr)
AddConstraintExpr(expr) ==
    LET out == add_constraint_expr(Self, expr)
    IN  /\ ModelCall("add_constraint_expr", out)
        /\ IF trail = <<"build_str_model">> /\ ~Raised(out.ret)
           THEN text' = text /\ trail' = Append(trail, "add_constraint_expr")
           ELSE Forget
        /\ JobUnchanged
        /\ UNCHANGED held

ModelAddConstraintExpr == \E expr \in ExprArgs : AddConstraintExpr(expr)

\* model.add_constraint_vector(lst)
AddConstraintVector(lst) ==
    /\ ModelCall("add_constraint_vector", add_constraint_vector(Self, lst))
    /\ JobUnchanged
    /\ Forget
    /\ UNCHANGED held

ModelAddConstraintVector == \E lst \in VectorArgs : AddConstraintVector(lst)

\* model.add_list_constraints(lst_constraints)
AddListConstraints(lst_constraints) ==
    /\ ModelCall("add_list_constraints", add_list_constraints(Self, lst_constraints))
    /\ JobUnchanged
    /\ Forget
    /\ UNCHANGED held

ModelAddListConstraints ==
    \E lst_constraints \in ListArgs : AddListConstraints(lst_constraints)

\* model.remove_constraint_with_index(index)
RemoveConstraintWithIndex(index) ==
    LET out == remove_constraint_with_index(Self, index)
    IN  /\ ModelCall("remove_constraint_with_index", out)
        /\ IF trail = <<"build_str_model", "add_constraint_expr">>
                  /\ index = -1 /\ ~Raised(out.ret)
           THEN text' = text /\ trail' = Append(trail, "remove_constraint_with_index")
           ELSE Forget
        /\ JobUnchanged
        /\ UNCHANGED held

ModelRemoveConstraintWithIndex ==
    \E index \in IndexArgs : RemoveConstraintWithIndex(index)

\* held = model.get_variable_with_id(id_)
GetVariableWithId(id_) ==
    LET out == get_variable_with_id(Self, id_)
    IN  /\ ModelCall("get_variable_with_id", out)
        /\ held' = IF Raised(out.ret) THEN held ELSE out.ret
        /\ JobUnchanged
        /\ Forget

ModelGetVariableWithId == \E id_ \in IdArgs : GetVariableWithId(id_)

\* held = model.get_variable_with_name(name)
GetVariableWithName(name) ==
    LET out == get_variable_with_name(Self, name)
    IN  /\ ModelCall("get_variable_with_name", out)
        /\ held' = IF Raised(out.ret) THEN held ELSE out.ret
        /\ JobUnchanged
        /\ Forget

ModelGetVariableWithName == \E name \in LookupNames : GetVariableWithName(name)

\* held.set_value(value), held being a variable of the model
SetValue(value) ==
    /\ held \in DOMAIN var_value
    /\ ModelCall("set_value", Var_set_value(Self, held, value))
    /\ JobUnchanged
    /\ Forget
    /\ UNCHANGED held

ModelSetValue == \E value \in ValueArgs : SetValue(value)

\* model.reinit(): SATModel.reinit, then BaseModel.reinit
ModelReinit ==
    /\ ModelCall("reinit", Outcome(SATModel_reinit(Self), None))
    /\ job_id' = None
    /\ solver_status' = "notstarted"
    /\ se_status' = "notstarted"
    /\ UNCHANGED <<client, held>>
    /\ Forget

\* text = model.build_str_model()
ModelBuildStrModel ==
    /\ ModelCall("build_str_model", Outcome(Self, Str(build_str_model(Self))))
    /\ IF trail \in Compared
       THEN text' = text /\ trail' = Append(trail, "build_str_model")
       ELSE text' = Str(build_str_model(Self)) /\ trail' = <<"build_str_model">>
    /\ JobUnchanged
    /\ UNCHANGED held

\* model.solve() against the answers of backend: BaseModel.solve
Solve(backend) ==
    LET managed == manage_solving(client, backend)
        processed == SATModel_process_solution(Self, managed.ret.result)
    IN  /\ client' = managed.client
        /\ IF Raised(managed.ret)
           THEN /\ ModelCall("solve", Outcome(Self, managed.ret))
                /\ UNCHANGED <<job_id, se_status, solver_status>>
           ELSE /\ job_id' = managed.ret.id
                /\ se_status' = managed.ret.se_status
                /\ IF Raised(processed.ret)
                   THEN /\ ModelCall("solve", processed)
                        /\ UNCHANGED solver_status
                   ELSE /\ ModelCall("solve", Outcome(processed.self, None))
                        /\ solver_status' = processed.ret.s
        /\ Forget
        /\ UNCHANGED held

ModelSolve == \E backend \in Backends : Solve(backend)

\* a caller that builds, reads and resets a model
ModelNext ==
    \/ ModelAddVariable
    \/ ModelAddConstraintExpr
    \/ ModelAddConstraintVector
    \/ ModelAddListConstraints
    \/ ModelRemoveConstraintWithIndex
    \/ ModelGetVariableWithId
    \/ ModelGetVariableWithName
    \/ ModelReinit
    \/ ModelBuildStrModel

ModelSpec == Init /\ [][ModelNext]_vars

\* a caller that builds, solves and resets a model (fourth specification)
SolveNext ==
    \/ ModelAddVariable
    \/ ModelAddConstraintExpr
    \/ ModelReinit
    \/ ModelBuildStrModel
    \/ ModelSolve

SolveSpec == Init /\ [][SolveNext]_vars

----------------------------------------------------------------------------
\* Solving, request by request: the statements of BaseModel.solve and
\* BaseClient.manage_solving as steps, each request of the client answered
\* by the backend.  No other call of the caller runs before solve has
\* returned or raised.

\* config.SEStatusCode
SEStatusCodes ==
    {"notstarted", "queued", "started", "starting", "completed", "stopped",
     "failed", "interrupted", "timeout"}

\* the statuses on which _wait_results raises
RaisingStatuses == {"failed", "timeout", "stopped"}

\* the statuses a job ends with: completed, and the statuses of an
\* unsuccessful run that the caller tests se_status against after solve
EndStatuses == {"completed", "failed", "stopped", "interrupted", "timeout"}

\* the results the backend returns for a job
JobResults ==
    {[status |-> "satisfiable", variables |-> <<Variable("1", 1)>>],
     [status |-> "unknown", variables |-> <<Variable("1", 1)>>]}

\* the statuses the backend can report at a status request: the status a
\* job ended with is reported from then on
Reports == IF job.status \in EndStatuses THEN {job.status} ELSE SEStatusCodes

\* the requests of the solve with one more request of the kind req
Sent(req) ==
    IF requests # <<>> /\ requests[Len(requests)] = req THEN requests
    ELSE Append(requests, req)

\* a step of solve leaves the collections of the model and the caller's
\* other state alone
CollectionsUnchanged ==
    /\ UNCHANGED <<variables, variables_name, lst_variables, constraints>>
    /\ UNCHANGED <<held, text, trail>>
    /\ UNCHANGED <<e, last, args>>
    /\ UNCHANGED hvars

\* solve returns ret or raises it: its locals are gone
SolveEnds(ret) ==
    /\ pc' = "idle"
    /\ call' = [name |-> "solve", ret |-> ret]
    /\ local_se_status' = None
    /\ job_result' = None
    /\ requests' = <<>>

\* solve goes on with the statement at next, having sent the request req
\* if any
SolveGoesOn(next, req) ==
    /\ pc' = next
    /\ requests' = IF req = "" THEN requests ELSE Sent(req)
    /\ UNCHANGED call

\* the caller calls model.solve(), which calls client.manage_solving()
SolveCall ==
    /\ pc = "idle"
    /\ pc' = "create"
    /\ call' = [name |-> "solve", ret |-> None]
    /\ UNCHANGED <<local_se_status, job_result, requests>>
    /\ UNCHANGED <<job, client, job_id, se_status, solver_status, var_value>>
    /\ CollectionsUnchanged

\* if not self._job_created: self._create_job(); self._job_created = True
\* the backend answers with the id of the job it created, or with an error
CreateJob ==
    /\ pc = "create"
    /\ IF client._job_created
       THEN /\ SolveGoesOn("schedule", "")
            /\ UNCHANGED <<client, job, local_se_status, job_result>>
       ELSE \/ \E id \in JobIds :
                  /\ job' = [data |-> build_str_model(Self), status |-> "notstarted"]
                  /\ client' = [client EXCEPT !._id = Str(id), !._job_created = TRUE]
                  /\ SolveGoesOn("schedule", "Create")
                  /\ UNCHANGED <<local_se_status, job_result>>
            \/ /\ SolveEnds(ValueError)
               /\ UNCHANGED <<job, client>>
    /\ UNCHANGED <<job_id, se_status, solver_status, var_value>>
    /\ CollectionsUnchanged

\* if not self._job_scheduled: self._schedule_job(); self._job_scheduled = True
ScheduleJob ==
    /\ pc = "schedule"
    /\ IF client._job_scheduled
       THEN /\ SolveGoesOn("wait", "")
            /\ UNCHANGED <<client, local_se_status, job_result>>
       ELSE \/ /\ client' = [client EXCEPT !._job_scheduled = TRUE]
               /\ SolveGoesOn("wait", "Schedule")
               /\ UNCHANGED <<local_se_status, job_result>>
            \/ /\ SolveEnds(ValueError)
               /\ UNCHANGED client
    /\ UNCHANGED <<job, job_id, se_status, solver_status, var_value>>
    /\ CollectionsUnchanged

\* _wait_results after the backend reported se_status_ at a status request
wait_results(se_status_) ==
    IF se_status_ = "completed" THEN Str(se_status_)
    ELSE IF se_status_ \in RaisingStatuses THEN ValueError
    ELSE None

\* if not self._job_done: se_status = self._wait_results(); self._job_done = True
\* one status request of the loop of _wait_results; after a status that
\* neither ends the loop nor raises, the loop sleeps and asks again
WaitResults ==
    /\ pc = "wait"
    /\ IF client._job_done
       THEN /\ SolveGoesOn("solution", "")
            /\ UNCHANGED <<client, job, local_se_status, job_result>>
       ELSE \/ \E reported \in Reports :
                  LET waited == wait_results(reported)
                  IN  /\ job' = [job EXCEPT !.status = reported]
                      /\ IF waited = None
                         THEN /\ SolveGoesOn("wait", "Status")
                              /\ UNCHANGED <<client, local_se_status, job_result>>
                         ELSE IF Raised(waited)
                         THEN /\ SolveEnds(waited)
                              /\ UNCHANGED client
                         ELSE /\ local_se_status' = waited
                              /\ client' = [client EXCEPT !._job_done = TRUE]
                              /\ SolveGoesOn("solution", "Status")
                              /\ UNCHANGED job_result
            \/ /\ SolveEnds(ValueError)
               /\ UNCHANGED <<job, client>>
    /\ UNCHANGED <<job_id, se_status, solver_status, var_value>>
    /\ CollectionsUnchanged

\* result = self._get_solution(): the backend answers with a result for
\* the job of the request, or with an error or the result of another job
GetSolution ==
    /\ pc = "solution"
    /\ \/ \E result_ \in JobResults :
             /\ job_result' = result_
             /\ SolveGoesOn("return", "GetResults")
             /\ UNCHANGED local_se_status
       \/ SolveEnds(ValueError)
    /\ UNCHANGED <<job, client, job_id, se_status, solver_status, var_value>>
    /\ CollectionsUnchanged

\* return self._id, se_status, result
\* self.__id, self.__se_status, result = self.client.manage_solving()
ManageSolvingReturn ==
    /\ pc = "return"
    /\ IF local_se_status = None
       THEN /\ SolveEnds(UnboundLocalError)
            /\ UNCHANGED <<job_id, se_status>>
       ELSE /\ job_id' = client._id
            /\ se_status' = local_se_status.s
            /\ SolveGoesOn("process", "")
            /\ UNCHANGED <<local_se_status, job_result>>
    /\ UNCHANGED <<job, client, solver_status, var_value>>
    /\ CollectionsUnchanged

\* self.__solver_status = self._process_solution(result)
ProcessSolution ==
    /\ pc = "process"
    /\ LET processed == SATModel_process_solution(Self, job_result)
       IN  /\ var_value' = processed.self.var_value
           /\ IF Raised(processed.ret)
              THEN /\ SolveEnds(processed.ret)
                   /\ UNCHANGED solver_status
              ELSE /\ SolveEnds(None)
                   /\ solver_status' = processed.ret.s
    /\ UNCHANGED <<job, client, job_id, se_status>>
    /\ CollectionsUnchanged

\* a caller that builds, solves and resets a model, the solve seen request
\* by request
JobNext ==
    \/ pc = "idle" /\ \E name \in Names : AddVariable(name, 0)
    \/ pc = "idle" /\ held # None /\ AddConstraintExpr(PyExpr(Var(held.id)))
    \/ pc = "idle" /\ ModelReinit
    \/ pc = "idle" /\ ModelSetValue
    \/ SolveCall
    \/ CreateJob
    \/ ScheduleJob
    \/ WaitResults
    \/ GetSolution
    \/ ManageSolvingReturn
    \/ ProcessSolution

JobSpec == Init /\ [][JobNext]_vars

\* the same caller, the loop of _wait_results going on as long as it can
\* (sixth specification)
JobFairSpec == JobSpec /\ WF_vars(WaitResults)

----------------------------------------------------------------------------
\* Truth tables and satisfaction, as the properties below read them

Assignments == SUBSET VarIds

\* truth value of an expression under the assignment making exactly the
\* variables of asg true; an IMP node is read "lhs implies rhs" when fwd
\* holds and "rhs implies lhs" otherwise
RECURSIVE Eval(_, _, _)
Eval(node, asg, fwd) ==
    CASE node.t = "Var" -> node.id \in asg
      [] node.t = "NEG" -> ~Eval(node.inner, asg, fwd)
      [] node.t = "AND" -> \A i \in 1..Len(node.content) : Eval(node.content[i], asg, fwd)
      [] node.t = "OR" -> \E i \in 1..Len(node.content) : Eval(node.content[i], asg, fwd)
      [] node.t = "XOR" -> Eval(node.lhs, asg, fwd) # Eval(node.rhs, asg, fwd)
      [] node.t = "EQ" -> Eval(node.lhs, asg, fwd) = Eval(node.rhs, asg, fwd)
      [] node.t = "NE" -> Eval(node.lhs, asg, fwd) # Eval(node.rhs, asg, fwd)
      [] node.t = "IMP" -> IF fwd THEN Eval(node.lhs, asg, fwd) => Eval(node.rhs, asg, fwd)
                                  ELSE Eval(node.rhs, asg, fwd) => Eval(node.lhs, asg, fwd)

\* a literal of a compiled clause holds under asg
LiteralHolds(lit, asg) ==
    CASE lit.t = "Var" -> lit.id \in asg
      [] lit.t = "NEG" /\ lit.inner.t = "Var" -> lit.inner.id \notin asg
      [] OTHER -> FALSE

\* asg satisfies every clause of a compiled clause set
SatisfiesClauses(cnf, asg) ==
    /\ cnf.t = "AND"
    /\ \A i \in 1..Len(cnf.content) :
          /\ cnf.content[i].t = "OR"
          /\ \E j \in 1..Len(cnf.content[i].content) :
                LiteralHolds(cnf.content[i].content[j], asg)

\* the assignments satisfying a compiled clause set
Models(cnf) == {asg \in Assignments : SatisfiesClauses(cnf, asg)}

\* the algebra as the data model states it: one-level negation and
\* flattening combination
PlainNeg(x) == IF x.t = "NEG" THEN x.inner ELSE [t |-> "NEG", inner |-> x]
Children(cls, x) == IF x.t = cls THEN x.content ELSE <<x>>
PlainJoin(cls, x, y) == [t |-> cls, content |-> Children(cls, x) \o Children(cls, y)]

\* any node of the tree satisfies P
RECURSIVE SubNodes(_)
RECURSIVE SubNodesOfAll(_)
SubNodesOfAll(content) ==
    IF Len(content) = 0 THEN {} ELSE SubNodes(Head(content)) \cup SubNodesOfAll(Tail(content))
SubNodes(node) ==
    CASE node.t = "NEG" -> {node} \cup SubNodes(node.inner)
      [] node.t \in ListClasses -> {node} \cup SubNodesOfAll(node.content)
      [] node.t \in BinaryClasses -> {node} \cup SubNodes(node.lhs) \cup SubNodes(node.rhs)
      [] OTHER -> {node}

Compiled == last = "convert_to_cnf"
Rewritten == last = "get_equivalent_expr"

----------------------------------------------------------------------------
\* C1 (as stated): an assignment satisfies the compiled expression, every
\* derived operator read with the truth table of its name and an IMP node
\* read "lhs implies rhs", iff it satisfies every clause of convert_to_cnf
C1_SoundCompleteForward ==
    Compiled => \A asg \in Assignments :
                    Eval(args[1], asg, TRUE) <=> SatisfiesClauses(e, asg)

\* C1 (amended): the same equivalence with an IMP node read "rhs implies
\* lhs": an assignment satisfies the expression iff it satisfies every
\* clause of convert_to_cnf(expression)
C1_SoundComplete ==
    Compiled => \A asg \in Assignments :
                    Eval(args[1], asg, FALSE) <=> SatisfiesClauses(e, asg)

\* a derived operator under a negation has been compiled, and the clause
\* set separates the assignments
C1_Witness ==
    /\ Compiled
    /\ args[1].t = "NEG"
    /\ args[1].inner.t \in BinaryClasses
    /\ Models(e) # {}
    /\ Models(e) # Assignments

----------------------------------------------------------------------------
\* C2 (as stated): the rewrite of the node built by l <= r is
\* Or(neg(l), r), true exactly where "l implies r" is true
C2_RewriteIsLhsImpliesRhs ==
    (Rewritten /\ args[1].t = "IMP") =>
        /\ e = PlainJoin("OR", PlainNeg(args[1].lhs), args[1].rhs)
        /\ \A asg \in Assignments :
              Eval(e, asg, TRUE) <=>
                  (Eval(args[1].lhs, asg, TRUE) => Eval(args[1].rhs, asg, TRUE))

\* C2 (amended): the rewrite of the node built by l <= r is Or(neg(r), l),
\* true exactly where "r implies l" is true
C2_RewriteIsRhsImpliesLhs ==
    (Rewritten /\ args[1].t = "IMP") =>
        /\ e = PlainJoin("OR", PlainNeg(args[1].rhs), args[1].lhs)
        /\ \A asg \in Assignments :
              Eval(e, asg, FALSE) <=>
                  (Eval(args[1].rhs, asg, FALSE) => Eval(args[1].lhs, asg, FALSE))

\* an implication between two different operands has been rewritten
C2_Witness ==
    /\ Rewritten
    /\ args[1].t = "IMP"
    /\ args[1].lhs # args[1].rhs
    /\ e.t = "OR"

----------------------------------------------------------------------------
\* C3: l <= r compiles exactly like Or(neg(r), l), and for two variables
\* x <= y compiles to the single clause (not y, x) in that order
C3_ImplicationCompilesAsOrNegRhsLhs ==
    (Compiled /\ args[1].t = "IMP") =>
        /\ e = convert_to_cnf(PlainJoin("OR", PlainNeg(args[1].rhs), args[1].lhs))
        /\ (args[1].lhs.t = "Var" /\ args[1].rhs.t = "Var") =>
              e = [t |-> "AND", content |->
                    << [t |-> "OR", content |->
                         << [t |-> "NEG", inner |-> args[1].rhs], args[1].lhs >>] >>]

\* x <= y over two different variables has been compiled
C3_Witness ==
    /\ Compiled
    /\ args[1].t = "IMP"
    /\ args[1].lhs.t = "Var"
    /\ args[1].rhs.t = "Var"
    /\ args[1].lhs # args[1].rhs
    /\ Len(e.content) = 1

----------------------------------------------------------------------------
\* C4: the rewrite of Xor(a,b) is (a & neg b) | (neg a & b), of Eq(a,b)
\* (a & b) | (neg a & neg b), of Neq(a,b) (neg a | neg b) & (a | b): the
\* node evaluates equal to it under every assignment, and
\* get_equivalent_expr returns exactly that structure with a and b embedded
\* as they are
C4_Table(node) ==
    LET a == node.lhs
        b == node.rhs
    IN  CASE node.t = "XOR" ->
               PlainJoin("OR", PlainJoin("AND", a, PlainNeg(b)),
                               PlainJoin("AND", PlainNeg(a), b))
          [] node.t = "EQ" ->
               PlainJoin("OR", PlainJoin("AND", a, b),
                               PlainJoin("AND", PlainNeg(a), PlainNeg(b)))
          [] node.t = "NE" ->
               PlainJoin("AND", PlainJoin("OR", PlainNeg(a), PlainNeg(b)),
                                PlainJoin("OR", a, b))

C4_RewriteSoundOneLevel ==
    (Rewritten /\ args[1].t \in {"XOR", "EQ", "NE"}) =>
        /\ e = C4_Table(args[1])
        /\ \A asg \in Assignments :
              Eval(args[1], asg, FALSE) <=> Eval(e, asg, FALSE)

\* a Neq whose operand is itself a derived operator has been rewritten, and
\* that operand sits in the result unrewritten
C4_Witness ==
    /\ Rewritten
    /\ args[1].t = "NE"
    /\ args[1].lhs.t \in BinaryClasses
    /\ args[1].lhs \in SubNodes(e)

----------------------------------------------------------------------------
\* C5: neg(neg(x)) is structurally x, no node ever produced is a NEG whose
\* inner is a NEG, and no construction trips the assertion of NEG.__init__
C5_NoDoubleNegation ==
    /\ ~IsError(e)
    /\ \A node \in SubNodes(e) : node.t = "NEG" => node.inner.t # "NEG"
    /\ last = "neg" => Neg(e) = args[1]

\* a negated conjunction has been negated again
C5_Witness ==
    /\ last = "neg"
    /\ args[1].t = "NEG"
    /\ args[1].inner.t = "AND"
    /\ e = args[1].inner

----------------------------------------------------------------------------
\* C6: & and | splice the children of an operand of the same class, on
\* either side and in order, and no AND has an AND child, no OR an OR child
C6_Flattening ==
    /\ last = "and" =>
          e = [t |-> "AND", content |->
                 Children("AND", args[1]) \o Children("AND", args[2])]
    /\ last = "or" =>
          e = [t |-> "OR", content |->
                 Children("OR", args[1]) \o Children("OR", args[2])]
    /\ \A node \in SubNodes(e) :
          node.t \in ListClasses =>
              \A i \in 1..Len(node.content) : node.content[i].t # node.t

\* x & (y & z): the right operand is a conjunction and was spliced
C6_Witness ==
    /\ last = "and"
    /\ args[1].t = "Var"
    /\ args[2].t = "AND"
    /\ Len(e.content) = 3
    /\ e.content = <<args[1]>> \o args[2].content

----------------------------------------------------------------------------
\* C7: no call mutates an object that existed before it: building a node
\* with any operator, get_equivalent_expr and convert_to_cnf leave the
\* content list, lhs, rhs and inner of every existing node as they were,
\* and the name and id of every variable are the same after every step
C7_NoMutation ==
    [][/\ \A i \in VarIds : heap'[i] = [t |-> "Var", _name |-> i, _id |-> i]
       /\ hlast' # "reclaim" =>
             /\ Len(heap') >= Len(heap)
             /\ \A r \in 1..Len(heap) : heap'[r] = heap[r]]_vars

\* (x & y) & z: the conjunction given as operand was spliced into the new
\* node, which has its own list of three while the operand's list still
\* has its two items
C7_Witness ==
    /\ hlast = "and"
    /\ heap[hargs[1]].t = "AND"
    /\ Len(h_content(heap, hargs[1])) = 2
    /\ Len(h_content(heap, ref)) = 3
    /\ heap[ref]._content # heap[hargs[1]]._content

----------------------------------------------------------------------------
\* C8: Neg(And(a,b)) and Or(neg a, neg b) compile to clause sets with the
\* same satisfying assignments, and dually Neg(Or(a,b)) and
\* And(neg a, neg b); a and b range over every way of writing the negated
\* node as a combination of two operands
C8_Part(cls, content) ==
    IF Len(content) = 1 THEN content[1] ELSE [t |-> cls, content |-> content]

C8_DeMorgan ==
    (Compiled /\ args[1].t = "NEG" /\ args[1].inner.t \in ListClasses) =>
        LET cls == args[1].inner.t
            dual == IF cls = "AND" THEN "OR" ELSE "AND"
            content == args[1].inner.content
        IN  \A k \in 1..(Len(content) - 1) :
               LET a == C8_Part(cls, SubSeq(content, 1, k))
                   b == C8_Part(cls, SubSeq(content, k + 1, Len(content)))
               IN  /\ PlainJoin(cls, a, b) = args[1].inner
                   /\ Models(e) =
                        Models(convert_to_cnf(PlainJoin(dual, PlainNeg(a), PlainNeg(b))))

\* the negation of a conjunction with an already negated child has been
\* compiled, and its clause set separates the assignments
C8_Witness ==
    /\ Compiled
    /\ args[1].t = "NEG"
    /\ args[1].inner.t = "AND"
    /\ \E i \in 1..Len(args[1].inner.content) : args[1].inner.content[i].t = "NEG"
    /\ Models(e) # {}
    /\ Models(e) # Assignments

----------------------------------------------------------------------------
\* C9: compiling an OR gives one clause per choice of one clause from each
\* child's compiled list, the chosen literals concatenated in child order
\* and the first child's choice varying slowest, nothing deduplicated;
\* compiling an AND gives the children's clause lists concatenated
RECURSIVE C9_Concat(_)
C9_Concat(seqs) ==
    IF Len(seqs) = 0 THEN <<>> ELSE Head(seqs) \o C9_Concat(Tail(seqs))

\* product of lens[i..Len(lens)]
RECURSIVE C9_Product(_, _)
C9_Product(lens, i) ==
    IF i > Len(lens) THEN 1 ELSE lens[i] * C9_Product(lens, i + 1)

RECURSIVE C9_Sum(_, _)
C9_Sum(lens, i) ==
    IF i > Len(lens) THEN 0 ELSE lens[i] + C9_Sum(lens, i + 1)

C9_ProductAndConcatenation ==
    (Compiled /\ args[1].t \in ListClasses) =>
        LET n == Len(args[1].content)
            clauses == [i \in 1..n |-> convert_to_cnf(args[1].content[i]).content]
            lens == [i \in 1..n |-> Len(clauses[i])]
            \* the clause of child i chosen by the k-th combination, k from 0
            choice(i, k) == ((k \div C9_Product(lens, i + 1)) % lens[i]) + 1
        IN  IF args[1].t = "OR"
            THEN /\ Len(e.content) = C9_Product(lens, 1)
                 /\ \A k \in 0..(C9_Product(lens, 1) - 1) :
                       e.content[k + 1] =
                          [t |-> "OR", content |->
                             C9_Concat([i \in 1..n |-> clauses[i][choice(i, k)].content])]
            ELSE /\ Len(e.content) = C9_Sum(lens, 1)
                 /\ e.content = C9_Concat(clauses)

\* a disjunction of two children with two clauses each has been compiled
\* to four clauses
C9_Witness ==
    /\ Compiled
    /\ args[1].t = "OR"
    /\ Len(args[1].content) = 2
    /\ Len(convert_to_cnf(args[1].content[1]).content) = 2
    /\ Len(convert_to_cnf(args[1].content[2]).content) = 2
    /\ Len(e.content) = 4
    /\ e.content[2] # e.content[3]

----------------------------------------------------------------------------
\* C10: a derived operator compiles to exactly the clause list of its
\* rewrite, nothing minimised; Xor of two variables x, y compiles to
\* {x, not x}, {x, y}, {not y, not x}, {not y, y} in that order
C10_Clause(lits) == [t |-> "OR", content |-> lits]

C10_CompilesAsRewrite ==
    (Compiled /\ args[1].t \in BinaryClasses) =>
        /\ e = convert_to_cnf(get_equivalent_expr(args[1]))
        /\ (args[1].t = "XOR" /\ args[1].lhs.t = "Var" /\ args[1].rhs.t = "Var") =>
              LET x == args[1].lhs
                  y == args[1].rhs
                  notx == [t |-> "NEG", inner |-> x]
                  noty == [t |-> "NEG", inner |-> y]
              IN  e = [t |-> "AND", content |->
                         << C10_Clause(<<x, notx>>), C10_Clause(<<x, y>>),
                            C10_Clause(<<noty, notx>>), C10_Clause(<<noty, y>>) >>]

\* x ^ y over two different variables has been compiled to four clauses
C10_Witness ==
    /\ Compiled
    /\ args[1].t = "XOR"
    /\ args[1].lhs.t = "Var"
    /\ args[1].rhs.t = "Var"
    /\ args[1].lhs # args[1].rhs
    /\ Len(e.content) = 4

----------------------------------------------------------------------------
\* The text of a model, as the properties below read it

Serialized == call.name = "build_str_model"

\* the literals of a clause, each followed by a blank, then the sentinel
RECURSIVE ClauseLine(_)
ClauseLine(lits) ==
    IF Len(lits) = 0 THEN "0"
    ELSE (IF Head(lits).t = "NEG" THEN "-" \o ToString(Head(lits).inner.id)
          ELSE ToString(Head(lits).id)) \o " " \o ClauseLine(Tail(lits))

\* the clause lines of the constraints cs, in the order of cs
RECURSIVE ClauseLines(_)
ClauseLines(cs) ==
    IF Len(cs) = 0 THEN <<>>
    ELSE LET cnf == convert_to_cnf(cs[Len(cs)]).content
         IN  ClauseLines(SubSeq(cs, 1, Len(cs) - 1))
                 \o [i \in 1..Len(cnf) |-> ClauseLine(cnf[i].content)]

\* a header line followed by the lines
RECURSIVE LinesAfter(_, _)
LinesAfter(header, lines) ==
    IF Len(lines) = 0 THEN header \o "\n"
    ELSE IF Len(lines) = 1 THEN header \o "\n" \o lines[1]
    ELSE LinesAfter(header, SubSeq(lines, 1, Len(lines) - 1)) \o "\n" \o lines[Len(lines)]

\* the text of a model with n registered variables and the constraints cs
TextOf(n, cs) ==
    LinesAfter("p cnf " \o ToString(n) \o " " \o ToString(Len(ClauseLines(cs))),
               ClauseLines(cs))

\* the model of tests/test_sat.py test_get_file_str: variables x, y, z and
\* the constraints (x & y) | z and -x & -y
ExampleModel ==
    LET m1 == add_variable(SATModel_init, "x", 0)
        m2 == add_variable(m1.self, "y", 0)
        m3 == add_variable(m2.self, "z", 0)
        c1 == add_constraint_expr(m3.self,
                  PyExpr(Expr_or(Expr_and(m1.ret, m2.ret), m3.ret)))
        c2 == add_constraint_expr(c1.self,
                  PyExpr(Expr_and(Neg(m1.ret), Neg(m2.ret))))
    IN  c2.self

\* C11: the text returned by build_str_model is the header "p cnf", the
\* number of registered variables and the number of clauses, followed by
\* one line per clause of the compiled constraints, in the order of the
\* constraints and with every repetition kept, each line made of the
\* literals and a final 0; for the model x, y, z with (x & y) | z and
\* -x & -y it is "p cnf 3 4", "1 3 0", "2 3 0", "-1 0", "-2 0".
C11_SerializedFormat ==
    /\ Serialized =>
          call.ret = Str(TextOf(Cardinality(DOMAIN variables_name), constraints))
    /\ build_str_model(ExampleModel) = "p cnf 3 4\n1 3 0\n2 3 0\n-1 0\n-2 0"

\* a text was returned for two constraints that compile to a clause with a
\* negated literal and to the same clause twice
C11_Witness ==
    /\ Serialized
    /\ Len(constraints) = 2
    /\ LET clauses == Clauses(constraints)
       IN  /\ \E i, j \in 1..Len(clauses) : i < j /\ clauses[i] = clauses[j]
           /\ \E i \in 1..Len(clauses) :
                 \E k \in 1..Len(clauses[i].content) : clauses[i].content[k].t = "NEG"

\* C12: the text depends on nothing but the variables and constraints of
\* the model at the call: it is the text of the current state; it is the
\* text of the build_str_model just before when no call came in between,
\* and when a constraint was added and removed again in between; and it is
\* not that earlier text when a constraint was added in between.
C12_TextOfCurrentState ==
    Serialized =>
        /\ call.ret = Str(TextOf(Cardinality(DOMAIN variables_name), constraints))
        /\ trail = <<"build_str_model", "build_str_model">> => call.ret = text
        /\ trail = <<"build_str_model", "add_constraint_expr",
                     "remove_constraint_with_index", "build_str_model">>
              => call.ret = text
        /\ trail = <<"build_str_model", "add_constraint_expr", "build_str_model">>
              => call.ret # text

\* a text was returned after a constraint was added to a model with a
\* constraint and removed again
C12_Witness ==
    /\ Serialized
    /\ trail = <<"build_str_model", "add_constraint_expr",
                 "remove_constraint_with_index", "build_str_model">>
    /\ Len(constraints) > 0
    /\ Len(lst_variables) > 0

----------------------------------------------------------------------------
\* The registry, as the properties below read it

\* the ids that are positive and not registered, up to the first one that
\* cannot be registered
UnusedIds == {k \in 1..(Cardinality(DOMAIN variables) + 1) : k \notin DOMAIN variables}

\* C13: add_variable(name) without an id, for a name that is free, registers
\* the variable under the smallest positive integer that is not a registered
\* id, whatever ids were chosen before; add_variable(name, id_) with a
\* nonzero id_ registers it, if at all, under abs(id_).
C13_IdOfNewVariable ==
    [][\A name \in Names, id_ \in IdArgs :
          AddVariable(name, id_) =>
              LET new_id == IF id_ = 0
                            THEN CHOOSE k \in UnusedIds : \A j \in UnusedIds : k <= j
                            ELSE IF id_ < 0 THEN -id_ ELSE id_
              IN  /\ ~Raised(call'.ret) =>
                        /\ call'.ret.id = new_id
                        /\ new_id \in DOMAIN variables'
                        /\ variables'[new_id] = call'.ret
                  /\ (id_ = 0 /\ name \notin DOMAIN variables_name) => ~Raised(call'.ret)
      ]_vars

\* add_variable returned a variable with id 1 in a model whose first
\* variable has the id 2
C13_Witness ==
    /\ call.name = "add_variable"
    /\ ~Raised(call.ret)
    /\ call.ret.id = 1
    /\ Len(lst_variables) = 2
    /\ lst_variables[1].id = 2
    /\ lst_variables[2] = call.ret


VarIdsOf(expr) == {n.id : n \in {m \in SubNodes(expr) : m.t = "Var"}}

\* C15: the id of every variable of every stored constraint is a registered
\* id, whatever calls were made, a reinit followed by the use of a variable
\* obtained before it included.
C15_ConstraintIdsRegistered ==
    \A i \in 1..Len(constraints) : VarIdsOf(constraints[i]) \subseteq DOMAIN variables


\* C16: add_constraint_vector raises for every list that is not empty and
\* has an entry that is 0 or is not an integer, and then no variable was
\* registered and no constraint stored.
C16_VectorRejectedBeforeMutation ==
    [][\A lst \in VectorArgs :
          (/\ AddConstraintVector(lst)
           /\ \E i \in 1..Len(lst) : lst[i].type # "int" \/ lst[i].val = 0)
          => /\ Raised(call'.ret)
             /\ variables' = variables
             /\ variables_name' = variables_name
             /\ lst_variables' = lst_variables
             /\ constraints' = constraints
      ]_vars

\* C17: when add_constraint_vector or add_list_constraints raises, the
\* variables and the constraints of the model are as they were before the
\* call.
C17_NoPartialApplication ==
    [][(call'.name \in {"add_constraint_vector", "add_list_constraints"} /\ Raised(call'.ret))
          => /\ variables' = variables
             /\ variables_name' = variables_name
             /\ lst_variables' = lst_variables
             /\ constraints' = constraints
      ]_vars


----------------------------------------------------------------------------
\* Solving, as the properties below read it

\* the solve fetched the result of the backend and the result has a status
\* of the solver
ResultApplied(backend) ==
    /\ Solve(backend)
    /\ manage_solving(client, backend).ret.t = "tuple"
    /\ backend.result.status \in SolverStatusCodes

\* C18: a solve that applies a result gives every registered variable that
\* the result names the value True when the result reports 1 for it and
\* False otherwise, and it raises when the result names an id that is not
\* registered.
C18_ResultApplied ==
    [][\A backend \in Backends :
          ResultApplied(backend) =>
              LET vs == backend.result.variables
              IN  /\ \A i \in 1..Len(vs) :
                        int(vs[i].name) \in DOMAIN variables =>
                            var_value'[variables[int(vs[i].name)]] = PyBool(vs[i].value = 1)
                  /\ (\E i \in 1..Len(vs) : int(vs[i].name) \notin DOMAIN variables)
                        => Raised(call'.ret)
      ]_vars


----------------------------------------------------------------------------
\* Lookups and reset, as the properties below read them

\* the registered variables
Registered == {lst_variables[i] : i \in 1..Len(lst_variables)}

ModelUnchanged ==
    /\ variables' = variables
    /\ variables_name' = variables_name
    /\ lst_variables' = lst_variables
    /\ constraints' = constraints
    /\ var_value' = var_value

\* C19: get_variable_with_id(id_) returns the registered variable whose id
\* is abs(id_) and raises when there is none; get_variable_with_name(name)
\* returns the registered variable of that name and raises when there is
\* none; neither changes the model.
C19_Lookups ==
    [][/\ \A id_ \in IdArgs :
             GetVariableWithId(id_) =>
                 LET found == {v \in Registered : v.id = (IF id_ < 0 THEN -id_ ELSE id_)}
                 IN  /\ ModelUnchanged
                     /\ IF found = {} THEN Raised(call'.ret) ELSE found = {call'.ret}
       /\ \A name \in LookupNames :
             GetVariableWithName(name) =>
                 LET found == {v \in Registered : v.name = name}
                 IN  /\ ModelUnchanged
                     /\ IF found = {} THEN Raised(call'.ret) ELSE found = {call'.ret}
      ]_vars

\* a lookup by id returned the second of two registered variables
C19_Witness ==
    /\ call.name = "get_variable_with_id"
    /\ Len(lst_variables) = 2
    /\ call.ret = lst_variables[2]
    /\ Len(constraints) > 0


\* C20: after reinit no id and no name is registered, there is no variable
\* and no constraint, the job id is unset and both statuses are
\* 'notstarted', all at once; an add_variable without an id that follows
\* gets the id 1 and a build_str_model that follows returns the header
\* "p cnf 0 0" and no clause line.
C20_ReinitClearsAll ==
    [][/\ call'.name = "reinit" =>
             /\ DOMAIN variables' = {}
             /\ DOMAIN variables_name' = {}
             /\ lst_variables' = <<>>
             /\ constraints' = <<>>
             /\ job_id' = None
             /\ se_status' = "notstarted"
             /\ solver_status' = "notstarted"
       /\ call.name = "reinit" =>
             /\ \A name \in Names :
                   AddVariable(name, 0) => ~Raised(call'.ret) /\ call'.ret.id = 1
             /\ ModelBuildStrModel => call'.ret = Str("p cnf 0 0\n")
      ]_vars

\* reinit returned on a model that had a variable and a solved job
C20_Witness ==
    /\ call.name = "reinit"
    /\ held # None
    /\ client._job_done
    /\ client._id # None


\* C21: a variable has no value when add_variable has created it; the
\* value of a variable changes only in a set_value with a boolean (the
\* caller's, or the one _process_solution makes within a solve) and is that
\* boolean afterwards; a set_value with anything else (0, 1, a string, None)
\* raises ValueError and leaves every value as it was.
C21_ValueOnlyBySetValue ==
    [][/\ call'.name = "add_variable" /\ ~Raised(call'.ret) =>
             var_value'[call'.ret] = None
       /\ \A v \in DOMAIN var_value \cap DOMAIN var_value' :
             var_value'[v] # var_value[v] =>
                 /\ isinstance_bool(var_value'[v])
                 /\ \/ call'.name = "solve"
                    \/ v = held /\ SetValue(var_value'[v])
       /\ call'.name = "set_value" =>
             \A value \in ValueArgs :
                 SetValue(value) =>
                     IF isinstance_bool(value)
                     THEN call'.ret = None /\ var_value'[held] = value
                     ELSE call'.ret = ValueError /\ var_value' = var_value
      ]_vars

\* a set_value with something that is no boolean was refused on a variable
\* that has a value
C21_Witness ==
    /\ call.name = "set_value"
    /\ call.ret = ValueError
    /\ held \in DOMAIN var_value
    /\ var_value[held] # None


\* C22: every solve goes through the whole job sequence for the model as it
\* is at the call: from the statement that creates the job it goes on only
\* with a job created from the current text of the model, from the
\* scheduling only with that job scheduled, from the waiting only with a
\* status request answered 'completed', and once the results are fetched
\* they are interpreted.
C22_WholeJobSequence ==
    [][/\ pc = "create" /\ pc' = "schedule" =>
             /\ requests' = <<"Create">>
             /\ job'.data = build_str_model(Self)
       /\ pc = "schedule" /\ pc' = "wait" =>
             requests' = <<"Create", "Schedule">>
       /\ pc = "wait" /\ pc' = "solution" =>
             /\ requests' = <<"Create", "Schedule", "Status">>
             /\ job'.status = "completed"
       /\ pc = "solution" /\ pc' = "return" =>
             requests' = <<"Create", "Schedule", "Status", "GetResults">>
       /\ pc = "return" => pc' = "process"
      ]_vars


\* C23: when a solve ends in the waiting for the results with the backend
\* having reported the job failed, stopped or timeout, se_status is that
\* reported status afterwards.
C23_StatusOfFailedJob ==
    [][pc = "wait" /\ pc' = "idle" /\ job'.status \in RaisingStatuses =>
           se_status' = job'.status
      ]_vars

\* C24: at a status request of the wait loop, solve goes on to the results
\* only on completed, raises on failed, timeout and stopped, and asks again
\* only on a status that a job can still leave; so a solve that waits for a
\* job that has ended leaves the wait loop.
C24_WaitLoop ==
    /\ [][pc = "wait" /\ ~client._job_done =>
              /\ pc' = "solution" => job'.status = "completed"
              /\ job'.status = "completed" /\ job' # job => pc' = "solution"
              /\ job'.status \in RaisingStatuses /\ job' # job =>
                     pc' = "idle" /\ call'.ret = ValueError
              /\ pc' = "wait" => job'.status \notin EndStatuses
         ]_vars
    /\ (pc = "wait" /\ job.status \in EndStatuses) ~> (pc # "wait")


\* the request req is sent in the step
Sends(req) ==
    /\ pc # "idle"
    /\ requests' # requests
    /\ requests' # <<>>
    /\ requests'[Len(requests')] = req

\* the place of a request in the order create, schedule, poll, fetch
Place(req) ==
    CASE req = "Create" -> 1 [] req = "Schedule" -> 2
      [] req = "Status" -> 3 [] req = "GetResults" -> 4

C25_CompilationTotal ==
    ~IsError(e) =>
        /\ ~IsError(convert_to_cnf(e))
        /\ ~IsError(solveengine_convert_to_cnf(e))


\* the variable id that a literal names
LiteralId(lit) == IF lit.t = "NEG" THEN lit.inner.id ELSE lit.id

\* C26: in a text that build_str_model returned, with the variable count n
\* in its header, every literal of every clause line names a variable id
\* from 1 to n.
C26_LiteralsWithinHeader ==
    Serialized =>
        \A n \in 0..(MaxVariables + 1) :
            call.ret = Str(TextOf(n, constraints)) =>
                LET clauses == Clauses(constraints)
                IN  \A i \in 1..Len(clauses) :
                        \A k \in 1..Len(clauses[i].content) :
                            LiteralId(clauses[i].content[k]) \in 1..n


\* a variable or a negated variable: what NEG.get_cnf_str asserts of its
\* inner node
IsLiteral(x) == x.t = "Var" \/ (x.t = "NEG" /\ x.inner.t = "Var")

\* an And of Ors of literals
IsClauseForm(cnf) ==
    /\ cnf.t = "AND"
    /\ \A i \in 1..Len(cnf.content) :
          /\ cnf.content[i].t = "OR"
          /\ \A k \in 1..Len(cnf.content[i].content) :
                IsLiteral(cnf.content[i].content[k])

\* C27: what convert_to_cnf returns for the expression of the caller is an
\* And whose children are Ors whose children are variables or negated
\* variables, so that the literal serializer finds a Var in every Neg.
C27_ClauseForm ==
    /\ ~IsError(e) => IsClauseForm(convert_to_cnf(e))
    /\ Compiled => IsClauseForm(e)

\* the negation of a conjunction or disjunction with a negated child, or of
\* a derived operator, has been compiled to several clauses
C27_Witness ==
    /\ Compiled
    /\ args[1].t = "NEG"
    /\ args[1].inner.t # "Var"
    /\ Len(e.content) >= 2
    /\ \E i \in 1..Len(e.content) :
          \E k \in 1..Len(e.content[i].content) : e.content[i].content[k].t = "NEG"


\* the elements of a list or the values of a map
Elements(f) == {f[x] : x \in DOMAIN f}

\* C28: the by-id map, the by-name map and the variable list hold the same
\* variables, the list each of them once; every id is positive; every
\* variable is stored under its own id and under its own name, so that no
\* two variables have the same id or the same name.
C28_RegistryConsistent ==
    /\ Elements(variables) = Elements(lst_variables)
    /\ Elements(variables_name) = Elements(lst_variables)
    /\ Cardinality(Elements(lst_variables)) = Len(lst_variables)
    /\ Cardinality(DOMAIN variables) = Len(lst_variables)
    /\ Cardinality(DOMAIN variables_name) = Len(lst_variables)
    /\ \A id \in DOMAIN variables : id >= 1 /\ variables[id].id = id
    /\ \A name \in DOMAIN variables_name : variables_name[name].name = name
    /\ \A i, j \in 1..Len(lst_variables) :
          i # j => /\ lst_variables[i].id # lst_variables[j].id
                   /\ lst_variables[i].name # lst_variables[j].name

\* add_constraint_vector has failed on a model with two variables, one of
\* them registered under a name that the vector generated
C28_Witness ==
    /\ call.name = "add_constraint_vector"
    /\ Raised(call.ret)
    /\ Len(lst_variables) = 2
    /\ \E i \in 1..Len(lst_variables) :
          lst_variables[i].name = GeneratedName(lst_variables[i].id)


====
